---------------------------- MODULE Spec2Model ----------------------------
(***************************************************************************)
(* Terrain and texture synthesis kernel of the Observatory island scripts  *)
(* (src/public/models/observatory_island_*.py) and the asset tools         *)
(* (src/src/game/tools, src/scripts).                                      *)
(*                                                                         *)
(* Real numbers are carried in fixed point:                                *)
(*   - coordinates and distances in units of 1/DistScale  (0.01),          *)
(*   - angles and sine/cosine values in units of 1/TrigScale (0.0001),     *)
(*   - heights and noise in units of 1/HeightScale (0.000001).             *)
(* HeightScale = 100 * DistScale^2, so (void_distance * 0.1)^2 is exact.   *)
(*                                                                         *)
(* Specifications:                                                         *)
(*   SpecTerrain    the vertex loop of create_island_terrain on a mesh of  *)
(*                  two vertices;                                          *)
(*   SpecConfig     the same loop after a caller has written other radii  *)
(*                  into terrain_params;                                   *)
(*   SpecTexture    one iteration of the pixel loop at a pixel of the      *)
(*                  1024 x 1024 raster, the random generator unconstrained;*)
(*   SpecRaster     the whole pixel loop on a small raster, run twice from *)
(*                  the same generator state;                              *)
(*   SpecNormalMap  the loop of create_terrain_normal_map;                 *)
(*   SpecKernels    the vertex loops of all five island scripts on the     *)
(*                  same plane vertex;                                     *)
(*   SpecCategorize one call of a categorizer of the asset tools;          *)
(*   SpecOrganize   organize_assets.main;                                  *)
(*   SpecForest     extract_forest_models.main on a small scene;           *)
(*   SpecModels     extract_models.extract_models on a small scene.        *)
(***************************************************************************)
EXTENDS Integers, Sequences, FiniteSets

VARIABLES
    terrain_params, \* self.terrain_params
    rng,        \* state of the `random` module's generator (see RandomAt)
    seed,       \* the generator state the synthesis was entered with
    verts,      \* bm.verts: sequence of [x, y, z] vertex coordinates
    vi,         \* position of the `for vert in bm.verts` loop (1-based)
    dists,      \* distance_from_center computed for each visited vertex
    noises,     \* get_surface_noise return value for each visited vertex
    tpc,        \* position in the body of the pixel loop
    px, py,     \* the pixel (x, y) of the current iteration
    dist_from_center,   \* in 1/PixScale
    normalized_dist,    \* in 1/TrigScale
    color,      \* the pixel's colour so far, channels in 1/ColorScale
    draws,      \* calls of random.random() made in this iteration
    final_color,    \* the four values appended to `pixels`
    tex_width, tex_height,  \* width, height of the image being synthesized
    pixels,     \* the flat buffer that becomes image.pixels
    base_color, \* the colour the gradient chain gave this pixel
    details,    \* the detail branches taken in this iteration, in order:
                \* <<"grass", grass_brightness>>, <<"sand", sand_brightness>>
    dither,     \* the values of `noise` drawn in this iteration
    written,    \* one record per pixels.extend call of this run
    run,        \* which invocation of the synthesis is executing (1 or 2)
    first_pixels,    \* the buffer the first invocation returned
    others,    \* per island script: what its kernel returned for verts[1]
    filename,    \* the name a categorizer is called with (a sequence of characters)
    returned,    \* what each categorizer returned for `filename`
    main_pc,    \* where organize_assets.main is: "copy", "extract", "manifest", "done", "failed"
    kit,    \* the files os.walk finds in the SciFi kit's FBX directory
    blends,    \* which entries of blend_files have a file at their path
    blend_i,    \* position of `for blend_info in blend_files` (1-based)
    model_dirs,    \* the directories that exist under shared/models
    library,    \* the files in those directories, as [dir, file]
    manifest,    \* library.json: one [category, name, file] per key of models[category]
    total,    \* the total_models that update_library_manifest prints (-1: nothing printed)
    steps,    \* the steps main has run, with how each ended
    objects,    \* the objects of the opened scene: [name, type, vertices] each
    obj_i,    \* position of `for obj in mesh_objects` (1-based)
    extracted_models,    \* the manifest the extraction script builds
    exports,    \* one record per export the script attempted, with its outcome
    total_printed    \* the total the script prints at its end (-1: not yet)

configVars == <<terrain_params>>
rngVars == <<rng, seed>>
terrainVars == <<verts, vi, dists, noises>>
textureVars == <<tpc, px, py, dist_from_center, normalized_dist, color, draws, final_color,
                 tex_width, tex_height, pixels, base_color, details, dither, written,
                 run, first_pixels>>
kernelVars == <<others>>
islandVars == <<configVars, rngVars, terrainVars, textureVars, kernelVars>>
categorizeVars == <<filename, returned>>
organizeVars == <<main_pc, kit, blends, blend_i, model_dirs, library, manifest, total, steps>>
sceneVars == <<objects, obj_i, extracted_models, exports, total_printed>>
toolVars == <<categorizeVars, organizeVars, sceneVars>>
vars == <<terrain_params, rng, seed, verts, vi, dists, noises,
          tpc, px, py, dist_from_center, normalized_dist, color, draws, final_color,
          tex_width, tex_height, pixels, base_color, details, dither, written,
          run, first_pixels,
          others,
          filename, returned,
          main_pc, kit, blends, blend_i, model_dirs, library, manifest, total, steps,
          objects, obj_i, extracted_models, exports, total_printed>>

---------------------------------------------------------------------------
(* Fixed-point scales *)

DistScale == 10 * 10
TrigScale == 100 * 100
HeightScale == 100 * DistScale * DistScale
PixScale == 5 * 10
ColorScale == 1000 * TrigScale

Abs(n) == IF n < 0 THEN -n ELSE n

---------------------------------------------------------------------------
(* self.terrain_params *)

\* the table __init__ builds (the entries the height function reads)
TerrainParams ==
    [hill_height |-> 15, hill_radius |-> 100, island_radius |-> 220,
     base_ground_level |-> -5]

HillHeight == terrain_params.hill_height
HillRadius == terrain_params.hill_radius
IslandRadius == terrain_params.island_radius
BaseGroundLevel == terrain_params.base_ground_level

---------------------------------------------------------------------------
(* math.sqrt, math.sin, math.cos in fixed point *)

RECURSIVE SqrtSearch(_, _, _)
\* largest r in lo..hi with r*r <= n
SqrtSearch(n, lo, hi) ==
    IF lo >= hi THEN lo
    ELSE LET mid == (lo + hi + 1) \div 2
         IN IF mid * mid <= n THEN SqrtSearch(n, mid, hi)
                              ELSE SqrtSearch(n, lo, mid - 1)

\* math.sqrt, rounded to the nearest representable value
Sqrt(n) ==
    LET r == SqrtSearch(n, 0, 46339)
    IN IF n - r * r > r THEN r + 1 ELSE r

\* math.pi in units of 1/TrigScale
Pi == 31416
HalfPi == Pi \div 2
QuarterPi == Pi \div 4

\* sin on [0, pi/4], Taylor polynomial in Horner form
SinPoly(a) ==
    LET a2 == (a * a) \div TrigScale
        t3 == TrigScale - a2 \div 42
        t2 == TrigScale - ((a2 * t3) \div TrigScale) \div 20
        t1 == TrigScale - ((a2 * t2) \div TrigScale) \div 6
    IN (a * t1) \div TrigScale

\* cos on [0, pi/4], Taylor polynomial in Horner form
CosPoly(a) ==
    LET a2 == (a * a) \div TrigScale
        c4 == TrigScale - a2 \div 56
        c3 == TrigScale - ((a2 * c4) \div TrigScale) \div 30
        c2 == TrigScale - ((a2 * c3) \div TrigScale) \div 12
    IN TrigScale - ((a2 * c2) \div TrigScale) \div 2

\* sin on [0, pi/2]
SinQuadrant(a) == IF a <= QuarterPi THEN SinPoly(a) ELSE CosPoly(HalfPi - a)

\* math.sin for any angle (range reduction to [0, 2 pi))
Sin(theta) ==
    LET a == theta % (2 * Pi)
        h == IF a >= Pi THEN a - Pi ELSE a
        q == IF h > HalfPi THEN Pi - h ELSE h
    IN IF a >= Pi THEN -SinQuadrant(q) ELSE SinQuadrant(q)

\* math.cos for any angle
Cos(theta) == Sin(theta + HalfPi)

---------------------------------------------------------------------------
(* get_surface_noise *)

\* The octave table.  freq and amp in hundredths, angles as pi * 10 / den,
\* phases in tenths.
Octaves ==
    << [freq |-> 8,   amp |-> 25, angle_x |-> 73, angle_z |-> 37, phase_x |-> 21, phase_z |-> 58],
       [freq |-> 15,  amp |-> 15, angle_x |-> 28, angle_z |-> 52, phase_x |-> 17, phase_z |-> 34],
       [freq |-> 32,  amp |-> 8,  angle_x |-> 41, angle_z |-> 69, phase_x |-> 42, phase_z |-> 19],
       [freq |-> 67,  amp |-> 4,  angle_x |-> 19, angle_z |-> 83, phase_x |-> 9,  phase_z |-> 61],
       [freq |-> 123, amp |-> 2,  angle_x |-> 34, angle_z |-> 21, phase_x |-> 38, phase_z |-> 27] >>

\* math.pi / den, den given in tenths
OctaveAngle(den10) == (Pi * 10) \div den10

\* x1 = x * cos(angle_x) - z * sin(angle_x)
RotateX(octave, x, z) ==
    LET a == OctaveAngle(octave.angle_x)
    IN (x * Cos(a) - z * Sin(a)) \div TrigScale

\* z1 = x * sin(angle_z) + z * cos(angle_z)
RotateZ(octave, x, z) ==
    LET a == OctaveAngle(octave.angle_z)
    IN (x * Sin(a) + z * Cos(a)) \div TrigScale

\* sin((x1 + phase_x) * freq) * cos((z1 + phase_z) * freq), in 1/TrigScale.
\* A coordinate c (1/DistScale) times freq/100 is c * freq in 1/TrigScale.
NoiseValue(octave, x, z) ==
    LET x1 == RotateX(octave, x, z)
        z1 == RotateZ(octave, x, z)
        sx == Sin((x1 + octave.phase_x * (DistScale \div 10)) * octave.freq)
        cz == Cos((z1 + octave.phase_z * (DistScale \div 10)) * octave.freq)
    IN (sx * cz) \div TrigScale

\* noise_value * octave['amp'], in 1/HeightScale
OctaveMutNoAmp(octave, x, z) == NoiseValue(octave, x, z) * 100

OctaveContribution(octave, x, z) == NoiseValue(octave, x, z) * octave.amp

RECURSIVE NoiseSum(_, _, _)
NoiseSum(k, x, z) ==
    IF k = 0 THEN 0
    ELSE NoiseSum(k - 1, x, z) + OctaveContribution(Octaves[k], x, z)

GetSurfaceNoiseMutCarry(x, z) ==
    NoiseSum(Len(Octaves), x, z) + (IF noises = <<>> THEN 0 ELSE noises[Len(noises)])

GetSurfaceNoise(x, z) == NoiseSum(Len(Octaves), x, z)

---------------------------------------------------------------------------
(* calculate_terrain_height *)

\* distance_from_center = math.sqrt(x * x + z * z)
DistanceFromCenter(x, z) == Sqrt(x * x + z * z)

\* Central hill: base_ground_level + hill_height * height_multiplier^2
HillMutSine(d) ==
    LET ratio == (d * TrigScale) \div (HillRadius * DistScale)
        height_multiplier == Sin(((ratio * Pi) \div TrigScale) \div 2)
    IN BaseGroundLevel * HeightScale
       + (HillHeight * height_multiplier * height_multiplier) \div 100

HillMutIslandRadius(d) ==
    LET ratio == (d * TrigScale) \div (IslandRadius * DistScale)
        height_multiplier == Cos(((ratio * Pi) \div TrigScale) \div 2)
    IN BaseGroundLevel * HeightScale
       + (HillHeight * height_multiplier * height_multiplier) \div 100

HillProfile(d) ==
    LET ratio == (d * TrigScale) \div (HillRadius * DistScale)
        height_multiplier == Cos(((ratio * Pi) \div TrigScale) \div 2)
    IN BaseGroundLevel * HeightScale
       + (HillHeight * height_multiplier * height_multiplier) \div 100

\* else: height = base_ground_level
ShelfMutZero == 0 * HeightScale

ShelfLevel == BaseGroundLevel * HeightScale

\* Void drop-off: base_ground_level - pow(void_distance * 0.1, 2)
VoidMutRise(d) ==
    LET void_distance == d - IslandRadius * DistScale
    IN BaseGroundLevel * HeightScale + void_distance * void_distance

VoidMutNoSquare(d) ==
    LET void_distance == d - IslandRadius * DistScale
    IN BaseGroundLevel * HeightScale - void_distance * (HeightScale \div (10 * DistScale))

VoidProfile(d) ==
    LET void_distance == d - IslandRadius * DistScale
    IN BaseGroundLevel * HeightScale - void_distance * void_distance

\* the height before the surface noise is added (lines 80-97)
ShapeMutAxis(x, z) ==
    LET d == DistanceFromCenter(x, z)
        height == IF d < HillRadius * DistScale THEN HillProfile(d) ELSE ShelfLevel
    IN IF Abs(x) >= IslandRadius * DistScale THEN VoidProfile(Abs(x)) ELSE height

ShapeHeight(x, z) ==
    LET d == DistanceFromCenter(x, z)
        height == IF d < HillRadius * DistScale THEN HillProfile(d) ELSE ShelfLevel
    IN IF d >= IslandRadius * DistScale THEN VoidProfile(d) ELSE height

CalculateTerrainHeight(x, z) == ShapeHeight(x, z) + GetSurfaceNoise(x, z)

---------------------------------------------------------------------------
(* Sample positions: rings of radius 0.05 * k around the origin, in a few  *)
(* directions.  Directions of length 5 (in 1/DistScale) give vertices whose*)
(* distance is exactly representable; the diagonal gives irrational ones.  *)

MaxRing == 12
RingStep == 500
MaxFine == 2

RingsPerUnit == DistScale \div 5

Rings ==
    {k * RingStep : k \in 0..MaxRing}
    \cup {HillRadius * RingsPerUnit + j : j \in (-MaxFine)..MaxFine}
    \cup {IslandRadius * RingsPerUnit + j : j \in (-MaxFine)..MaxFine}

Dirs == {<<5, 0>>, <<0, -5>>, <<3, 4>>, <<-4, 3>>, <<4, 4>>, <<-4, 4>>}

Points == {<<k * d[1], k * d[2]>> : k \in Rings, d \in Dirs}

\* a vertex of the flat plane created at z = 0
PlaneVert(p) == [x |-> p[1], y |-> p[2], z |-> 0]

---------------------------------------------------------------------------
(* create_island_terrain: the vertex loop *)

InitTerrain ==
    /\ terrain_params = TerrainParams
    /\ rng = 0
    /\ seed = 0
    /\ verts \in {<<PlaneVert(p), PlaneVert(q)>> : p, q \in Points}
    /\ vi = 1
    /\ dists = <<>>
    /\ noises = <<>>
    /\ tpc = "start"
    /\ px = 0
    /\ py = 0
    /\ dist_from_center = 0
    /\ normalized_dist = 0
    /\ color = <<>>
    /\ draws = 0
    /\ final_color = <<>>
    /\ tex_width = 0
    /\ tex_height = 0
    /\ pixels = <<>>
    /\ base_color = <<>>
    /\ details = <<>>
    /\ dither = <<>>
    /\ written = <<>>
    /\ run = 1
    /\ first_pixels = <<>>
    /\ others = {}
    /\ filename = <<>>
    /\ returned = {}
    /\ main_pc = "copy"
    /\ kit = {}
    /\ blends = {}
    /\ blend_i = 1
    /\ model_dirs = {}
    /\ library = {}
    /\ manifest = {}
    /\ total = -1
    /\ steps = <<>>
    /\ objects = <<>>
    /\ obj_i = 1
    /\ extracted_models = {}
    /\ exports = <<>>
    /\ total_printed = -1

\* the height is computed from the swapped coordinates
VisitMutSwapped ==
    /\ vi <= Len(verts)
    /\ LET x == verts[vi].y
           y == verts[vi].x
           height == CalculateTerrainHeight(x, y)
       IN /\ verts' = [verts EXCEPT ![vi].z = height]
          /\ dists' = Append(dists, DistanceFromCenter(x, y))
          /\ noises' = Append(noises, GetSurfaceNoise(x, y))
    /\ vi' = vi + 1

\* one iteration of `for vert in bm.verts`
VisitVert ==
    /\ vi <= Len(verts)
    /\ LET x == verts[vi].x
           y == verts[vi].y
           height == CalculateTerrainHeight(x, y)
       IN /\ verts' = [verts EXCEPT ![vi].z = height]
          /\ dists' = Append(dists, DistanceFromCenter(x, y))
          /\ noises' = Append(noises, GetSurfaceNoise(x, y))
    /\ vi' = vi + 1


---------------------------------------------------------------------------
(* create_detailed_terrain_texture: the radial gradient *)

\* width, height = 1024, 1024
Width == 1024
Height == 1024
CenterX == tex_width \div 2
CenterY == tex_height \div 2

Min(a, b) == IF a < b THEN a ELSE b
Max(a, b) == IF a < b THEN b ELSE a

\* max_radius = min(center_x, center_y) * 0.98, in 1/PixScale
MaxRadius == (Min(CenterX, CenterY) * 98 * PixScale) \div 100

\* the colour literals, channels in thousandths
GrassCenter == <<239, 376, 90, 1000>>
MediumGreen == <<176, 314, 90, 1000>>
SandyBeach == <<761, 698, 502, 1000>>
DarkerSand == <<631, 565, 376, 1000>>
WetSand == <<545, 451, 333, 1000>>

\* a colour literal in 1/ColorScale
Literal(c) == [k \in 1..4 |-> c[k] * TrigScale]

\* lerp_color; t in 1/TrigScale
LerpMutChannel(color1, color2, t) ==
    << color1[1] * TrigScale + (color2[1] - color1[1]) * t,
       color1[1] * TrigScale + (color2[1] - color1[1]) * t,
       color1[3] * TrigScale + (color2[3] - color1[3]) * t,
       ColorScale >>

LerpColor(color1, color2, t) ==
    << color1[1] * TrigScale + (color2[1] - color1[1]) * t,
       color1[2] * TrigScale + (color2[2] - color1[2]) * t,
       color1[3] * TrigScale + (color2[3] - color1[3]) * t,
       ColorScale >>

\* t = (normalized_dist - lo) / width; lo and width in 1/TrigScale
BandMutNoOffset(u, lo, width) == (u * TrigScale) \div width

BandT(u, lo, width) == ((u - lo) * TrigScale) \div width

\* the if / elif chain on normalized_dist (breakpoints 0.0, 0.4, 0.7, 0.85)
BaseColor(u) ==
    IF u <= 0 THEN Literal(GrassCenter)
    ELSE IF u <= 4000 THEN LerpColor(GrassCenter, MediumGreen, BandT(u, 0, 4000))
    ELSE IF u <= 7000 THEN LerpColor(MediumGreen, SandyBeach, BandT(u, 4000, 3000))
    ELSE IF u <= 8500 THEN LerpColor(SandyBeach, DarkerSand, BandT(u, 7000, 1500))
    ELSE LerpColor(DarkerSand, WetSand, BandT(u, 8500, 1500))

\* dist_from_center = math.sqrt((x - center_x)**2 + (y - center_y)**2)
PixelDistance(x, y) ==
    Sqrt(((x - CenterX) * (x - CenterX) + (y - CenterY) * (y - CenterY))
         * PixScale * PixScale)

\* normalized_dist = dist_from_center / max_radius
Normalize(d) == (d * TrigScale) \div MaxRadius

---------------------------------------------------------------------------
(* Sampled pixels, gradient probes and random.random() outcomes *)

PixStep == 64
MaxPix == 15
UStep == 50
MaxU == 300

PixelCoords == {c \in {k * PixStep : k \in 0..MaxPix} \cup {CenterX, tex_width - 1} : c < tex_width}

UProbes ==
    {k * UStep : k \in 0..MaxU}
    \cup {0, 1, 3999, 4000, 4001, 5500, 6999, 7000, 7001, 8499, 8500, 8501, 9999, 10000, 10001}

\* random.random() lies in [0, 1); outcomes in 1/TrigScale
RandomSamples == {0, 9, 15, 5000, 9999}

\* The values a seeded generator returns, call after call (cyclic).  A
\* generator state rng >= 1 is a position in this stream; rng = 0 stands
\* for a generator whose state is not known, every call of which can
\* return any of RandomSamples.
RandTable == <<5000, 9, 9999, 0, 15, 5000, 0, 9, 9999, 5000, 15, 0, 9999>>

\* the possible results of the (k+1)-th next call of random.random()
RandomMutPerRun(k) ==
    IF rng = 0 THEN RandomSamples
    ELSE {RandTable[((rng + run - 2 + k) % Len(RandTable)) + 1]}

RandomAt(k) ==
    IF rng = 0 THEN RandomSamples
    ELSE {RandTable[((rng - 1 + k) % Len(RandTable)) + 1]}

\* the generator state after n calls
Advance(n) == IF rng = 0 THEN 0 ELSE ((rng - 1 + n) % Len(RandTable)) + 1

---------------------------------------------------------------------------
(* create_detailed_terrain_texture: the pixel loop *)

\* the raster sizes the full loop is run on (they stand for 1024 x 1024)
MaxRaster == 4

RasterSizes == 2..MaxRaster

\* min(1.0, c + brightness * weight); brightness in 1/TrigScale, weight in tenths
Brighten(c, brightness, weight) == Min(ColorScale, c + brightness * weight * 100)

\* if dist_from_center < width * 0.4
GrassZoneMutHalf(d) == d * 10 < tex_width * 5 * PixScale

InGrassZone(d) == d * 10 < tex_width * 4 * PixScale

\* if dist_from_center > width * 0.3
InSandZone(d) == d * 10 > tex_width * 3 * PixScale

\* calls of random.random() made by the grass block when it is entered
GrassDrawsMutConstant(fired) == IF fired THEN 3 ELSE 3

GrassDraws(fired) == IF fired THEN 3 ELSE 2

\* calls of random.random() made by the sand block when it is entered
SandDraws(fired) == IF fired THEN 2 ELSE 1

\* noise = (random.random() - 0.5) * 0.08, in 1/ColorScale
DitherMutWide(r) == (r - 5000) * 160

DitherOffset(r) == (r - 5000) * 80

\* max(0.0, min(1.0, c))
ClampMutNoUpper(c) == Max(0, c)

Clamp01(c) == Max(0, Min(ColorScale, c))

\* the pixel visited after (x, y): for y in range(height): for x in range(width)
RasterMutColumnMajor(x, y) == IF y + 1 < tex_height THEN <<x, y + 1>> ELSE <<x + 1, 0>>

RasterNext(x, y) == IF x + 1 < tex_width THEN <<x + 1, y>> ELSE <<0, y + 1>>

InRaster(pos) == pos[1] < tex_width /\ pos[2] < tex_height

\* before the pixel loop of the 1024 x 1024 texture; no mesh is involved
InitTexture ==
    /\ terrain_params = TerrainParams
    /\ rng = 0
    /\ seed = 0
    /\ tex_width = Width
    /\ tex_height = Height
    /\ pixels = <<>>
    /\ tpc = "start"
    /\ px = 0
    /\ py = 0
    /\ dist_from_center = 0
    /\ normalized_dist = 0
    /\ color = <<>>
    /\ draws = 0
    /\ final_color = <<>>
    /\ base_color = <<>>
    /\ details = <<>>
    /\ dither = <<>>
    /\ written = <<>>
    /\ run = 1
    /\ first_pixels = <<>>
    /\ verts = <<>>
    /\ vi = 1
    /\ dists = <<>>
    /\ noises = <<>>
    /\ others = {}
    /\ filename = <<>>
    /\ returned = {}
    /\ main_pc = "copy"
    /\ kit = {}
    /\ blends = {}
    /\ blend_i = 1
    /\ model_dirs = {}
    /\ library = {}
    /\ manifest = {}
    /\ total = -1
    /\ steps = <<>>
    /\ objects = <<>>
    /\ obj_i = 1
    /\ extracted_models = {}
    /\ exports = <<>>
    /\ total_printed = -1

\* before the pixel loop of a small raster, the generator seeded
InitRaster ==
    /\ terrain_params = TerrainParams
    /\ rng \in 1..Len(RandTable)
    /\ seed = rng
    /\ tex_width \in RasterSizes
    /\ tex_height = tex_width
    /\ pixels = <<>>
    /\ tpc = "start"
    /\ px = 0
    /\ py = 0
    /\ dist_from_center = 0
    /\ normalized_dist = 0
    /\ color = <<>>
    /\ draws = 0
    /\ final_color = <<>>
    /\ base_color = <<>>
    /\ details = <<>>
    /\ dither = <<>>
    /\ written = <<>>
    /\ run = 1
    /\ first_pixels = <<>>
    /\ verts = <<>>
    /\ vi = 1
    /\ dists = <<>>
    /\ noises = <<>>
    /\ others = {}
    /\ filename = <<>>
    /\ returned = {}
    /\ main_pc = "copy"
    /\ kit = {}
    /\ blends = {}
    /\ blend_i = 1
    /\ model_dirs = {}
    /\ library = {}
    /\ manifest = {}
    /\ total = -1
    /\ steps = <<>>
    /\ objects = <<>>
    /\ obj_i = 1
    /\ extracted_models = {}
    /\ exports = <<>>
    /\ total_printed = -1

\* the loop body entered at one pixel of the raster: distance and normalisation
StartPixel ==
    /\ tpc = "start"
    /\ \E x \in PixelCoords, y \in PixelCoords :
          /\ px' = x
          /\ py' = y
          /\ dist_from_center' = PixelDistance(x, y)
          /\ normalized_dist' = Normalize(PixelDistance(x, y))
    /\ tpc' = "gradient"
    /\ UNCHANGED <<color, draws, final_color, tex_width, tex_height, pixels, base_color,
                   details, dither, written, run, first_pixels, rng, seed>>

\* for y in range(height): for x in range(width): the next pixel in raster
\* order, its distance and normalisation; after the last one
\* image.pixels = pixels
NextPixel ==
    /\ tpc \in {"start", "done"}
    /\ LET pos == IF tpc = "start" THEN <<0, 0>> ELSE RasterNext(px, py)
       IN IF InRaster(pos)
          THEN /\ px' = pos[1]
               /\ py' = pos[2]
               /\ dist_from_center' = PixelDistance(pos[1], pos[2])
               /\ normalized_dist' = Normalize(PixelDistance(pos[1], pos[2]))
               /\ draws' = 0
               /\ details' = <<>>
               /\ dither' = <<>>
               /\ tpc' = "gradient"
          ELSE /\ tpc' = "finished"
               /\ UNCHANGED <<px, py, dist_from_center, normalized_dist, draws,
                              details, dither>>
    /\ UNCHANGED <<color, final_color, tex_width, tex_height, pixels, base_color, written,
                   run, first_pixels, rng, seed>>

\* the gradient chain of the loop body
Gradient ==
    /\ tpc = "gradient"
    /\ color' = BaseColor(normalized_dist)
    /\ base_color' = BaseColor(normalized_dist)
    /\ tpc' = "grass"
    /\ UNCHANGED <<px, py, dist_from_center, normalized_dist, draws, final_color,
                   tex_width, tex_height, pixels, details, dither, written, run,
                   first_pixels, rng, seed>>

\* the gradient chain evaluated at a given normalized_dist
ProbeGradient ==
    /\ tpc = "start"
    /\ \E u \in UProbes :
          /\ normalized_dist' = u
          /\ color' = BaseColor(u)
          /\ base_color' = BaseColor(u)
    /\ tpc' = "probed"
    /\ UNCHANGED <<px, py, dist_from_center, draws, final_color, tex_width, tex_height,
                   pixels, details, dither, written, run, first_pixels, rng, seed>>

\* Add grass texture details
GrassDetail ==
    /\ tpc = "grass"
    /\ IF InGrassZone(dist_from_center)
       THEN \E grass_noise \in RandomAt(0), r \in RandomAt(1), b \in RandomAt(2) :
               IF r < 20
               THEN LET grass_brightness == (b * 4) \div 10 + 2000
                    IN /\ color' = << Brighten(color[1], grass_brightness, 3),
                                      Brighten(color[2], grass_brightness, 5),
                                      Brighten(color[3], grass_brightness, 2),
                                      ColorScale >>
                       /\ details' = Append(details, <<"grass", grass_brightness>>)
                       /\ draws' = draws + GrassDraws(TRUE)
                       /\ rng' = Advance(GrassDraws(TRUE))
               ELSE /\ color' = color
                    /\ details' = details
                    /\ draws' = draws + GrassDraws(FALSE)
                    /\ rng' = Advance(GrassDraws(FALSE))
       ELSE UNCHANGED <<color, details, draws, rng>>
    /\ tpc' = "sand"
    /\ UNCHANGED <<px, py, dist_from_center, normalized_dist, final_color, tex_width,
                   tex_height, pixels, base_color, dither, written, run, first_pixels,
                   seed>>

\* Add sand texture details
SandDetail ==
    /\ tpc = "sand"
    /\ IF InSandZone(dist_from_center)
       THEN \E r \in RandomAt(0), b \in RandomAt(1) :
               IF r < 10
               THEN LET sand_brightness == (b * 3) \div 10 + 3000
                    IN /\ color' = << Brighten(color[1], sand_brightness, 4),
                                      Brighten(color[2], sand_brightness, 3),
                                      Brighten(color[3], sand_brightness, 2),
                                      ColorScale >>
                       /\ details' = Append(details, <<"sand", sand_brightness>>)
                       /\ draws' = draws + SandDraws(TRUE)
                       /\ rng' = Advance(SandDraws(TRUE))
               ELSE /\ color' = color
                    /\ details' = details
                    /\ draws' = draws + SandDraws(FALSE)
                    /\ rng' = Advance(SandDraws(FALSE))
       ELSE UNCHANGED <<color, details, draws, rng>>
    /\ tpc' = "noise"
    /\ UNCHANGED <<px, py, dist_from_center, normalized_dist, final_color, tex_width,
                   tex_height, pixels, base_color, dither, written, run, first_pixels,
                   seed>>

\* Add noise overlay, clamp, pixels.extend(final_color)
NoiseOverlay ==
    /\ tpc = "noise"
    /\ \E r \in RandomAt(0) :
          LET noise == DitherOffset(r)
              pixel == << Clamp01(color[1] + noise),
                          Clamp01(color[2] + noise),
                          Clamp01(color[3] + noise),
                          ColorScale >>
          IN /\ final_color' = pixel
             /\ dither' = Append(dither, noise)
             /\ pixels' = pixels \o pixel
             /\ written' = Append(written, [x |-> px, y |-> py, rgba |-> pixel,
                                            draws |-> draws + 1, details |-> details])
    /\ draws' = draws + 1
    /\ rng' = Advance(1)
    /\ tpc' = "done"
    /\ UNCHANGED <<px, py, dist_from_center, normalized_dist, color, tex_width, tex_height,
                   base_color, details, run, first_pixels, seed>>

\* create_detailed_terrain_texture entered a second time, the generator put
\* back into the state the first invocation started from
RunAgain ==
    /\ tpc = "finished"
    /\ run = 1
    /\ first_pixels' = pixels
    /\ run' = 2
    /\ rng' = seed
    /\ pixels' = <<>>
    /\ written' = <<>>
    /\ tpc' = "start"
    /\ px' = 0
    /\ py' = 0
    /\ dist_from_center' = 0
    /\ normalized_dist' = 0
    /\ color' = <<>>
    /\ draws' = 0
    /\ final_color' = <<>>
    /\ base_color' = <<>>
    /\ details' = <<>>
    /\ dither' = <<>>
    /\ UNCHANGED <<tex_width, tex_height, seed>>

NextTexture ==
    \/ (StartPixel /\ UNCHANGED terrainVars /\ UNCHANGED configVars /\ UNCHANGED kernelVars /\ UNCHANGED toolVars)
    \/ (Gradient /\ UNCHANGED terrainVars /\ UNCHANGED configVars /\ UNCHANGED kernelVars /\ UNCHANGED toolVars)
    \/ (ProbeGradient /\ UNCHANGED terrainVars /\ UNCHANGED configVars /\ UNCHANGED kernelVars /\ UNCHANGED toolVars)
    \/ (GrassDetail /\ UNCHANGED terrainVars /\ UNCHANGED configVars /\ UNCHANGED kernelVars /\ UNCHANGED toolVars)
    \/ (SandDetail /\ UNCHANGED terrainVars /\ UNCHANGED configVars /\ UNCHANGED kernelVars /\ UNCHANGED toolVars)
    \/ (NoiseOverlay /\ UNCHANGED terrainVars /\ UNCHANGED configVars /\ UNCHANGED kernelVars /\ UNCHANGED toolVars)

SpecTexture == InitTexture /\ [][NextTexture]_vars

NextRaster ==
    \/ (NextPixel /\ UNCHANGED terrainVars /\ UNCHANGED configVars /\ UNCHANGED kernelVars /\ UNCHANGED toolVars)
    \/ (Gradient /\ UNCHANGED terrainVars /\ UNCHANGED configVars /\ UNCHANGED kernelVars /\ UNCHANGED toolVars)
    \/ (GrassDetail /\ UNCHANGED terrainVars /\ UNCHANGED configVars /\ UNCHANGED kernelVars /\ UNCHANGED toolVars)
    \/ (SandDetail /\ UNCHANGED terrainVars /\ UNCHANGED configVars /\ UNCHANGED kernelVars /\ UNCHANGED toolVars)
    \/ (NoiseOverlay /\ UNCHANGED terrainVars /\ UNCHANGED configVars /\ UNCHANGED kernelVars /\ UNCHANGED toolVars)
    \/ (RunAgain /\ UNCHANGED terrainVars /\ UNCHANGED configVars /\ UNCHANGED kernelVars /\ UNCHANGED toolVars)

SpecRaster == InitRaster /\ [][NextRaster]_vars

NextTerrain == VisitVert /\ UNCHANGED textureVars /\ UNCHANGED configVars /\ UNCHANGED rngVars /\ UNCHANGED kernelVars /\ UNCHANGED toolVars

SpecTerrain == InitTerrain /\ [][NextTerrain]_vars

---------------------------------------------------------------------------
(* The generator with a substituted parameter table *)

\* self.terrain_params is a plain dict attribute: the hill and island radii
\* a caller can put into it before the terrain is created
ConfigRadii == {0, 100, 220, 300}

\* vertices on the x axis, 25 units apart
ConfigPoints == {<<k * RingStep * 5, 0>> : k \in 0..MaxRing}

\* after __init__: the table holds the literals, nothing was checked
InitConfig ==
    /\ terrain_params = TerrainParams
    /\ rng = 0
    /\ seed = 0
    /\ verts \in {<<PlaneVert(p), PlaneVert(q)>> : p, q \in ConfigPoints}
    /\ vi = 1
    /\ dists = <<>>
    /\ noises = <<>>
    /\ tpc = "start"
    /\ px = 0
    /\ py = 0
    /\ dist_from_center = 0
    /\ normalized_dist = 0
    /\ color = <<>>
    /\ draws = 0
    /\ final_color = <<>>
    /\ tex_width = 0
    /\ tex_height = 0
    /\ pixels = <<>>
    /\ base_color = <<>>
    /\ details = <<>>
    /\ dither = <<>>
    /\ written = <<>>
    /\ run = 1
    /\ first_pixels = <<>>
    /\ others = {}
    /\ filename = <<>>
    /\ returned = {}
    /\ main_pc = "copy"
    /\ kit = {}
    /\ blends = {}
    /\ blend_i = 1
    /\ model_dirs = {}
    /\ library = {}
    /\ manifest = {}
    /\ total = -1
    /\ steps = <<>>
    /\ objects = <<>>
    /\ obj_i = 1
    /\ extracted_models = {}
    /\ exports = <<>>
    /\ total_printed = -1

\* generator.terrain_params[key] = r, before create_island_terrain
SetParam ==
    /\ vi = 1
    /\ \E key \in {"hill_radius", "island_radius"}, r \in ConfigRadii :
          terrain_params' = [terrain_params EXCEPT ![key] = r]

NextConfig ==
    \/ (SetParam /\ UNCHANGED terrainVars /\ UNCHANGED textureVars /\ UNCHANGED rngVars /\ UNCHANGED kernelVars /\ UNCHANGED toolVars)
    \/ (VisitVert /\ UNCHANGED textureVars /\ UNCHANGED configVars /\ UNCHANGED rngVars /\ UNCHANGED kernelVars /\ UNCHANGED toolVars)

SpecConfig == InitConfig /\ [][NextConfig]_vars

---------------------------------------------------------------------------
(* create_terrain_normal_map *)

\* the image sizes the loop is run on (they stand for 512 x 512)
MaxNormal == 6

NormalSizes == 1..MaxNormal

\* pixels.extend([0.5, 0.5, 1.0, 1.0])
NormalMutNoisy ==
    <<ColorScale \div 2 + rng, ColorScale \div 2 + rng, ColorScale, ColorScale>>

FlatNormal == <<ColorScale \div 2, ColorScale \div 2, ColorScale, ColorScale>>

\* pixels = [] before the loops; the generator is in any state
InitNormalMap ==
    /\ terrain_params = TerrainParams
    /\ rng \in 0..Len(RandTable)
    /\ seed = rng
    /\ tex_width \in NormalSizes
    /\ tex_height = tex_width
    /\ pixels = <<>>
    /\ tpc = "normal"
    /\ px = 0
    /\ py = 0
    /\ dist_from_center = 0
    /\ normalized_dist = 0
    /\ color = <<>>
    /\ draws = 0
    /\ final_color = <<>>
    /\ base_color = <<>>
    /\ details = <<>>
    /\ dither = <<>>
    /\ written = <<>>
    /\ run = 1
    /\ first_pixels = <<>>
    /\ verts = <<>>
    /\ vi = 1
    /\ dists = <<>>
    /\ noises = <<>>
    /\ others = {}
    /\ filename = <<>>
    /\ returned = {}
    /\ main_pc = "copy"
    /\ kit = {}
    /\ blends = {}
    /\ blend_i = 1
    /\ model_dirs = {}
    /\ library = {}
    /\ manifest = {}
    /\ total = -1
    /\ steps = <<>>
    /\ objects = <<>>
    /\ obj_i = 1
    /\ extracted_models = {}
    /\ exports = <<>>
    /\ total_printed = -1

\* one iteration of for y in range(512): for x in range(512)
ExtendNormal ==
    /\ tpc = "normal"
    /\ py < tex_height
    /\ pixels' = pixels \o FlatNormal
    /\ px' = IF px + 1 < tex_width THEN px + 1 ELSE 0
    /\ py' = IF px + 1 < tex_width THEN py ELSE py + 1
    /\ UNCHANGED <<tpc, dist_from_center, normalized_dist, color, draws, final_color,
                   tex_width, tex_height, base_color, details, dither, written, run,
                   first_pixels, rng, seed>>

\* image.pixels = pixels
StoreNormal ==
    /\ tpc = "normal"
    /\ py >= tex_height
    /\ tpc' = "normal_stored"
    /\ UNCHANGED <<px, py, dist_from_center, normalized_dist, color, draws, final_color,
                   tex_width, tex_height, pixels, base_color, details, dither, written,
                   run, first_pixels, rng, seed>>

NextNormalMap ==
    \/ (ExtendNormal /\ UNCHANGED terrainVars /\ UNCHANGED configVars /\ UNCHANGED kernelVars /\ UNCHANGED toolVars)
    \/ (StoreNormal /\ UNCHANGED terrainVars /\ UNCHANGED configVars /\ UNCHANGED kernelVars /\ UNCHANGED toolVars)

SpecNormalMap == InitNormalMap /\ [][NextNormalMap]_vars

---------------------------------------------------------------------------
(* Properties of the height field *)

\* vertices the loop has already written
Visited == 1..(vi - 1)

\* calculate_terrain_height(x, z) minus get_surface_noise(x, z)
NoiseFree(i) == verts[i].z - noises[i]

\* x^2 + z^2 of vertex i (exact)
DistSq(i) == verts[i].x * verts[i].x + verts[i].y * verts[i].y

RECURSIVE AmpSum(_)
AmpSum(k) == IF k = 0 THEN 0 ELSE AmpSum(k - 1) + Octaves[k].amp

\* sum of the octave amplitudes, in 1/HeightScale
MaxNoiseAmplitude == AmpSum(Len(Octaves)) * (HeightScale \div 100)

\* the vertices within MaxFine sample rings of radius r
NearSeam(i, r) == Abs(dists[i] - r * DistScale) <= 5 * MaxFine

\* C1: beyond the island radius the height without the noise is
\* base_ground_level - ((d - island_radius) * 0.1)^2; at (300, 0) it is -69.
C1_VoidFalloff ==
    \A i \in Visited :
        /\ dists[i] >= IslandRadius * DistScale =>
              NoiseFree(i) = BaseGroundLevel * HeightScale
                 - (dists[i] - IslandRadius * DistScale)
                   * (dists[i] - IslandRadius * DistScale)
        /\ (verts[i].x = 300 * DistScale /\ verts[i].y = 0) =>
              NoiseFree(i) = (-69) * HeightScale

C1_Witness ==
    \E i \in Visited :
        /\ verts[i].x = 300 * DistScale /\ verts[i].y = 0
        /\ dists[i] = 300 * DistScale
        /\ noises[i] # 0
        /\ verts[i].z = (-69) * HeightScale + noises[i]

\* C2: on the shelf (hill_radius <= d < island_radius) the height without
\* the noise is exactly base_ground_level; at (150, 0) it is -5.
C2_FlatShelf ==
    \A i \in Visited :
        /\ (dists[i] >= HillRadius * DistScale /\ dists[i] < IslandRadius * DistScale) =>
              NoiseFree(i) = BaseGroundLevel * HeightScale
        /\ (verts[i].x = 150 * DistScale /\ verts[i].y = 0) =>
              NoiseFree(i) = (-5) * HeightScale

C2_Witness ==
    \E i \in Visited :
        /\ verts[i].x = 150 * DistScale /\ verts[i].y = 0
        /\ dists[i] = 150 * DistScale
        /\ noises[i] # 0
        /\ verts[i].z = (-5) * HeightScale + noises[i]

\* C3: inside the hill the height without the noise is
\* base_ground_level + hill_height * cos((d / hill_radius) * pi / 2)^2, it
\* lies in [base_ground_level, base_ground_level + hill_height], it is
\* base_ground_level + hill_height (10) at d = 0, and no vertex anywhere has
\* a larger one.
C3_HillDome ==
    \A i \in Visited :
        /\ dists[i] < HillRadius * DistScale =>
              LET t == Cos((dists[i] * Pi) \div (2 * HillRadius * DistScale))
              IN /\ NoiseFree(i) = BaseGroundLevel * HeightScale
                                     + (HillHeight * t * t) \div ((TrigScale * TrigScale) \div HeightScale)
                 /\ NoiseFree(i) >= BaseGroundLevel * HeightScale
                 /\ NoiseFree(i) <= (BaseGroundLevel + HillHeight) * HeightScale
        /\ dists[i] = 0 => NoiseFree(i) = 10 * HeightScale
        /\ NoiseFree(i) <= (BaseGroundLevel + HillHeight) * HeightScale
        /\ \A j \in Visited : dists[j] = 0 => NoiseFree(i) <= NoiseFree(j)

C3_Witness ==
    /\ vi > Len(verts)
    /\ dists[1] = 0
    /\ NoiseFree(1) = 10 * HeightScale
    /\ dists[2] > 0 /\ dists[2] < HillRadius * DistScale
    /\ NoiseFree(2) > BaseGroundLevel * HeightScale
    /\ NoiseFree(2) < NoiseFree(1)

\* C4: across the hill_radius seam the height is continuous up to the noise:
\* just below the seam the height without the noise is within
\* 3 * hill_height * ((hill_radius - d) / hill_radius)^2 of base_ground_level,
\* at d = hill_radius it is base_ground_level, and two vertices just below
\* and just above the seam differ in height by at most twice the noise
\* amplitude.
C4_HillSeamContinuous ==
    \A i \in Visited :
        /\ dists[i] = HillRadius * DistScale =>
              NoiseFree(i) = BaseGroundLevel * HeightScale
        /\ (NearSeam(i, HillRadius) /\ dists[i] < HillRadius * DistScale) =>
              LET gap == HillRadius * DistScale - dists[i]
              IN /\ NoiseFree(i) >= BaseGroundLevel * HeightScale
                 /\ NoiseFree(i) - BaseGroundLevel * HeightScale
                       <= (3 * HillHeight * gap * gap * (HeightScale \div (DistScale * DistScale)))
                              \div (HillRadius * HillRadius)
        /\ \A j \in Visited :
              ( /\ NearSeam(i, HillRadius) /\ NearSeam(j, HillRadius)
                /\ dists[i] < HillRadius * DistScale
                /\ dists[j] >= HillRadius * DistScale ) =>
                    Abs(verts[i].z - verts[j].z) <= 2 * MaxNoiseAmplitude

C4_Witness ==
    /\ vi > Len(verts)
    /\ dists[1] = HillRadius * DistScale - 5
    /\ dists[2] = HillRadius * DistScale
    /\ NoiseFree(1) > NoiseFree(2)
    /\ verts[1].z # verts[2].z
    /\ <<verts[1].x, verts[1].y>> # <<verts[2].x, verts[2].y>>

\* C5: at d = island_radius the height without the noise is base_ground_level,
\* the same as on the shelf just inside, and beyond it the height without the
\* noise strictly decreases with d.
C5_VoidMonotone ==
    \A i \in Visited :
        /\ dists[i] = IslandRadius * DistScale =>
              NoiseFree(i) = BaseGroundLevel * HeightScale
        /\ \A j \in Visited :
              /\ ( /\ NearSeam(i, IslandRadius)
                   /\ dists[i] < IslandRadius * DistScale
                   /\ dists[j] = IslandRadius * DistScale ) =>
                       NoiseFree(i) = NoiseFree(j)
              /\ ( /\ dists[i] >= IslandRadius * DistScale
                   /\ dists[i] < dists[j] ) =>
                       NoiseFree(j) < NoiseFree(i)

C5_Witness ==
    /\ vi > Len(verts)
    /\ dists[1] = IslandRadius * DistScale
    /\ dists[2] = IslandRadius * DistScale + 5
    /\ NoiseFree(1) = BaseGroundLevel * HeightScale
    /\ NoiseFree(2) < NoiseFree(1)

\* C6: the height without the noise depends on the distance from the origin
\* alone: two vertices with the same x^2 + z^2 have the same one.
C6_Radial ==
    \A i, j \in Visited : DistSq(i) = DistSq(j) => NoiseFree(i) = NoiseFree(j)

C6_Witness ==
    /\ vi > Len(verts)
    /\ DistSq(1) = DistSq(2)
    /\ verts[1].x # verts[2].x /\ verts[1].y # verts[2].y
    /\ dists[1] > IslandRadius * DistScale
    /\ noises[1] # noises[2]
    /\ verts[1].z # verts[2].z

\* C7: the surface noise never exceeds the sum of the five octave
\* amplitudes, 0.25 + 0.15 + 0.08 + 0.04 + 0.02 = 0.54, in magnitude.
C7_NoiseBound ==
    /\ Len(Octaves) = 5
    /\ MaxNoiseAmplitude * 100 = 54 * HeightScale
    /\ \A i \in Visited : Abs(noises[i]) <= MaxNoiseAmplitude

C7_Witness ==
    \E i \in Visited : Abs(noises[i]) * 100 > 30 * HeightScale

---------------------------------------------------------------------------
(* Properties of the radial gradient *)

\* the five breakpoints and their colours
ZoneTable ==
    << [at |-> 0,         rgb |-> GrassCenter],
       [at |-> 4 * 1000,  rgb |-> MediumGreen],
       [at |-> 7 * 1000,  rgb |-> SandyBeach],
       [at |-> 85 * 100,  rgb |-> DarkerSand],
       [at |-> TrigScale, rgb |-> WetSand] >>

\* the states in which `color` is the base colour of normalized_dist
HasBaseColor == tpc \in {"grass", "probed"}

ChannelMin(ch) ==
    CHOOSE m \in {ZoneTable[k].rgb[ch] : k \in 1..Len(ZoneTable)} :
        \A k \in 1..Len(ZoneTable) : m <= ZoneTable[k].rgb[ch]

ChannelMax(ch) ==
    CHOOSE m \in {ZoneTable[k].rgb[ch] : k \in 1..Len(ZoneTable)} :
        \A k \in 1..Len(ZoneTable) : m >= ZoneTable[k].rgb[ch]

\* c lies between a and b, which may be in either order
Between(c, a, b) == (a <= c /\ c <= b) \/ (b <= c /\ c <= a)

StrictlyBetween(c, a, b) == (a < c /\ c < b) \/ (b < c /\ c < a)

\* C8: for normalized_dist in [0, 1] the base colour is the linear
\* interpolation, with one parameter t in [0, 1], between the colours of the
\* two breakpoints enclosing it, and each channel stays within the minimum
\* and maximum of that channel over the five table colours.
C8_GradientInHull ==
    (HasBaseColor /\ normalized_dist >= 0 /\ normalized_dist <= TrigScale) =>
        /\ \E k \in 1..(Len(ZoneTable) - 1) :
              /\ ZoneTable[k].at <= normalized_dist
              /\ normalized_dist <= ZoneTable[k + 1].at
              /\ LET t == ((normalized_dist - ZoneTable[k].at) * TrigScale)
                              \div (ZoneTable[k + 1].at - ZoneTable[k].at)
                 IN /\ 0 <= t /\ t <= TrigScale
                    /\ \A ch \in 1..3 :
                          /\ color[ch] = ZoneTable[k].rgb[ch] * TrigScale
                                + (ZoneTable[k + 1].rgb[ch] - ZoneTable[k].rgb[ch]) * t
                          /\ Between(color[ch], ZoneTable[k].rgb[ch] * TrigScale,
                                     ZoneTable[k + 1].rgb[ch] * TrigScale)
        /\ \A ch \in 1..3 :
              /\ ChannelMin(ch) * TrigScale <= color[ch]
              /\ color[ch] <= ChannelMax(ch) * TrigScale
        /\ color[4] = ColorScale

C8_Witness ==
    /\ tpc = "grass"
    /\ px # CenterX /\ py # CenterY
    /\ normalized_dist > 7 * 1000 /\ normalized_dist < 85 * 100
    /\ \A ch \in 1..3 :
          StrictlyBetween(color[ch], SandyBeach[ch] * TrigScale, DarkerSand[ch] * TrigScale)

C10_ClampedAboveOne ==
    (HasBaseColor /\ normalized_dist >= TrigScale) =>
        color = <<5450000, 4510000, 3330000, ColorScale>>

---------------------------------------------------------------------------
(* Properties of the pixel loop *)

\* the pixel loop has appended the current pixel to the buffer
PixelWritten == tpc = "done"

\* C11: every R, G, B value written to the buffer lies in [0, 1] and every
\* alpha value is exactly 1.0, whatever random.random() returned.
C11_BufferInRange ==
    /\ \A i \in 1..Len(pixels) :
          IF i % 4 = 0 THEN pixels[i] = ColorScale
          ELSE 0 <= pixels[i] /\ pixels[i] <= ColorScale
    /\ PixelWritten =>
          /\ \A k \in 1..3 : 0 <= final_color[k] /\ final_color[k] <= ColorScale
          /\ final_color[4] = ColorScale

\* a pixel whose red channel would exceed 1.0 without the final clamp
C11_Witness ==
    /\ PixelWritten
    /\ Len(pixels) = 4
    /\ color[1] + dither[1] > ColorScale
    /\ pixels[1] = ColorScale
    /\ pixels[4] = ColorScale

\* the detail blocks of the current iteration have been passed
DetailsDone == tpc \in {"noise", "done"}

GrassFired == \E i \in 1..Len(details) : details[i][1] = "grass"

SandFired == \E i \in 1..Len(details) : details[i][1] = "sand"

\* dist_from_center < width * 0.4 and dist_from_center > width * 0.3
NearerThanGrassEdge == dist_from_center * 10 < 4 * tex_width * PixScale

FartherThanSandEdge == dist_from_center * 10 > 3 * tex_width * PixScale

\* the colour weights of the two detail blocks, in tenths
GrassWeights == <<3, 5, 2>>

SandWeights == <<4, 3, 2>>

\* channel k of colour c after the detail `detail` = <<kind, brightness>>
Detailed(c, detail, k) ==
    LET weights == IF detail[1] = "grass" THEN GrassWeights ELSE SandWeights
    IN Min(ColorScale, c[k] + detail[2] * weights[k] * 100)

\* C12: grass detail changes a pixel only where d < 0.4 * width, sand detail
\* only where d > 0.3 * width; every pixel satisfies at least one of the
\* two conditions; where both hold the pixel may get neither, either or
\* both, the sand brightening being applied to the grass-brightened colour.
C12_DetailGating ==
    DetailsDone =>
        /\ NearerThanGrassEdge \/ FartherThanSandEdge
        /\ GrassFired => NearerThanGrassEdge
        /\ SandFired => FartherThanSandEdge
        /\ Len(details) <= 2
        /\ Len(details) = 0 => color = base_color
        /\ Len(details) = 1 =>
              /\ \A k \in 1..3 : color[k] = Detailed(base_color, details[1], k)
              /\ color[4] = ColorScale
        /\ Len(details) = 2 =>
              /\ details[1][1] = "grass"
              /\ details[2][1] = "sand"
              /\ \A k \in 1..3 :
                    LET grass_color == [j \in 1..3 |-> Detailed(base_color, details[1], j)]
                    IN color[k] = Detailed(grass_color, details[2], k)
              /\ color[4] = ColorScale

\* a pixel between the two thresholds that got both details, the blue
\* channel (never capped there) showing both brightenings
C12_Witness ==
    /\ DetailsDone
    /\ NearerThanGrassEdge
    /\ FartherThanSandEdge
    /\ GrassFired
    /\ SandFired
    /\ color[3] = base_color[3] + details[1][2] * 200 + details[2][2] * 200
    /\ color[3] < ColorScale

\* calls of random.random() the two detail blocks of this iteration made
DetailDraws ==
    (IF NearerThanGrassEdge THEN (IF GrassFired THEN 3 ELSE 2) ELSE 0)
    + (IF FartherThanSandEdge THEN (IF SandFired THEN 2 ELSE 1) ELSE 0)

\* C13: each pixel draws exactly one dither offset, of magnitude at most
\* 0.04, and that one offset is added to R, G and B before clamping: where
\* no channel is clamped the final pixel differs from the colour after the
\* details by the same amount in all three channels.
C13_OneDither ==
    /\ tpc = "noise" => (dither = <<>> /\ draws = DetailDraws)
    /\ PixelWritten =>
          /\ Len(dither) = 1
          /\ draws = DetailDraws + 1
          /\ Abs(dither[1]) * 100 <= 4 * ColorScale
          /\ \A k \in 1..3 :
                final_color[k] = Max(0, Min(ColorScale, color[k] + dither[1]))
          /\ (\A k \in 1..3 : 0 <= color[k] + dither[1] /\ color[k] + dither[1] <= ColorScale)
                => \A k \in 1..3 : final_color[k] - color[k] = dither[1]

\* a pixel darkened by the largest offset, -0.04, no channel clamped
C13_Witness ==
    /\ PixelWritten
    /\ dither = <<-(4 * ColorScale) \div 100>>
    /\ \A k \in 1..3 : final_color[k] = color[k] + dither[1]
    /\ \A k \in 1..3 : final_color[k] > 0

---------------------------------------------------------------------------
(* Properties of the whole raster *)

\* the synthesis has stored its buffer in the image
Finished == tpc = "finished"

PixelBase(x, y) == 4 * (y * tex_width + x)

\* the pixels.extend calls made for pixel (x, y) in this invocation
WritesOf(x, y) == {k \in 1..Len(written) : written[k].x = x /\ written[k].y = y}

\* C15: the buffer is flat, row-major and channel-interleaved: the four
\* values of pixel (x, y) are at (0-based) indices 4*(y*width + x) ..
\* 4*(y*width + x) + 3 in R, G, B, A order, no pixel is written twice, and
\* after synthesis every pixel has been written once and the buffer has
\* 4 * width * height entries.
C15_BufferLayout ==
    /\ Len(pixels) = 4 * Len(written)
    /\ \A k \in 1..Len(written) :
          /\ written[k].x \in 0..(tex_width - 1)
          /\ written[k].y \in 0..(tex_height - 1)
          /\ PixelBase(written[k].x, written[k].y) = 4 * (k - 1)
          /\ \A c \in 1..4 :
                pixels[PixelBase(written[k].x, written[k].y) + c] = written[k].rgba[c]
          /\ Cardinality(WritesOf(written[k].x, written[k].y)) = 1
    /\ PixelWritten =>
          /\ \A c \in 1..3 :
                pixels[PixelBase(px, py) + c]
                    = Max(0, Min(ColorScale, color[c] + dither[1]))
          /\ pixels[PixelBase(px, py) + 4] = ColorScale
    /\ Finished =>
          /\ Len(pixels) = 4 * tex_width * tex_height
          /\ \A x \in 0..(tex_width - 1), y \in 0..(tex_height - 1) :
                Cardinality(WritesOf(x, y)) = 1

\* a finished raster of at least three rows; pixel (1, 2) sits behind two
\* full rows and one pixel, its R, G and B values all different
C15_Witness ==
    /\ Finished
    /\ tex_height >= 3
    /\ Len(pixels) = 4 * tex_width * tex_height
    /\ \E k \in 1..Len(written) :
          /\ written[k].x = 1
          /\ written[k].y = 2
          /\ k = 2 * tex_width + 2
          /\ written[k].rgba[1] # written[k].rgba[2]
          /\ written[k].rgba[2] # written[k].rgba[3]
          /\ pixels[4 * (k - 1) + 1] = written[k].rgba[1]

---------------------------------------------------------------------------
(* Properties of the normal map *)

\* C16: the normal-map buffer holds (0.5, 0.5, 1.0, 1.0) for every pixel,
\* one group of four per pixel of the image, whatever state the random
\* generator is in, and the synthesis leaves the generator untouched.
C16_FlatNormalMap ==
    tpc \in {"normal", "normal_stored"} =>
        /\ Len(pixels) % 4 = 0
        /\ \A i \in 1..Len(pixels) :
              pixels[i] = IF i % 4 \in {1, 2} THEN 5 * (ColorScale \div 10) ELSE ColorScale
        /\ rng = seed
        /\ tpc = "normal_stored" => Len(pixels) = 4 * tex_width * tex_height

\* a stored normal map of several rows, synthesized with a seeded generator
C16_Witness ==
    /\ tpc = "normal_stored"
    /\ tex_height >= 3
    /\ seed >= 1
    /\ Len(pixels) = 4 * tex_width * tex_height
    /\ pixels[Len(pixels) - 3] = 5 * (ColorScale \div 10)
    /\ pixels[Len(pixels)] = ColorScale

---------------------------------------------------------------------------
(* Properties of the configuration *)

\* C17: the configuration is validated at construction, so that no height
\* is ever computed with hill_radius >= island_radius.
C17_NoHeightWithBadRadii ==
    \A i \in Visited : HillRadius < IslandRadius

\* C18: a configuration with hill_radius = 0 fails instead of yielding a
\* value, so that no height is ever returned for it.
C18_NoHeightWithZeroRadius ==
    \A i \in Visited : HillRadius # 0

---------------------------------------------------------------------------
(* Properties of the order of evaluation *)

\* C19: height evaluation depends on nothing but (x, z) and the terrain
\* parameters and changes neither the parameters nor the random generator:
\* a vertex evaluated earlier has the height a later evaluation gives it,
\* equal positions get equal heights whatever was evaluated in between,
\* and the vertices not yet evaluated are untouched.
C19_OrderIndependent ==
    /\ terrain_params = TerrainParams
    /\ rng = seed
    /\ \A i \in Visited :
          /\ verts[i].z = CalculateTerrainHeight(verts[i].x, verts[i].y)
          /\ noises[i] = GetSurfaceNoise(verts[i].x, verts[i].y)
    /\ \A i, j \in Visited :
          (verts[i].x = verts[j].x /\ verts[i].y = verts[j].y) =>
              (verts[i].z = verts[j].z /\ noises[i] = noises[j])
    /\ \A i \in 1..Len(verts) : i >= vi => verts[i].z = 0

\* the same position evaluated first and second, off the origin, with a
\* non-zero noise term
C19_Witness ==
    /\ vi = 3
    /\ verts[1].x = verts[2].x
    /\ verts[1].y = verts[2].y
    /\ verts[1].x # 0
    /\ noises[1] # 0
    /\ verts[1].z = verts[2].z

---------------------------------------------------------------------------
(* Properties of the consumption of the random stream *)

\* the value of the (n+1)-th call of random.random() since the seed
StreamAt(n) == RandTable[((seed - 1 + n) % Len(RandTable)) + 1]

\* calls of random.random() made for the first k pixels written
RECURSIVE DrawsBefore(_)
DrawsBefore(k) == IF k = 0 THEN 0 ELSE DrawsBefore(k - 1) + written[k].draws

\* calls made so far in this invocation
DrawsSoFar ==
    DrawsBefore(Len(written)) + (IF tpc \in {"grass", "sand", "noise"} THEN draws ELSE 0)

NearGrass(x, y) == PixelDistance(x, y) * 10 < 4 * tex_width * PixScale

FarSand(x, y) == PixelDistance(x, y) * 10 > 3 * tex_width * PixScale

HasDetail(ds, kind) == \E i \in 1..Len(ds) : ds[i][1] = kind

\* calls of random.random() an iteration makes for pixel (x, y) when it
\* takes the detail branches ds
DrawsFor(x, y, ds) ==
    (IF NearGrass(x, y) THEN (IF HasDetail(ds, "grass") THEN 3 ELSE 2) ELSE 0)
    + (IF FarSand(x, y) THEN (IF HasDetail(ds, "sand") THEN 2 ELSE 1) ELSE 0)
    + 1

\* the four values pixel (x, y) gets when its iteration starts after n calls
PixelFrom(n, x, y) ==
    LET c0 == BaseColor(Normalize(PixelDistance(x, y)))
        grass == NearGrass(x, y) /\ StreamAt(n + 1) < 20
        gb == (StreamAt(n + 2) * 4) \div 10 + 2000
        c1 == IF grass THEN [k \in 1..3 |-> Detailed(c0, <<"grass", gb>>, k)] ELSE c0
        n1 == n + (IF NearGrass(x, y) THEN (IF grass THEN 3 ELSE 2) ELSE 0)
        sand == FarSand(x, y) /\ StreamAt(n1) < 10
        sb == (StreamAt(n1 + 1) * 3) \div 10 + 3000
        c2 == IF sand THEN [k \in 1..3 |-> Detailed(c1, <<"sand", sb>>, k)] ELSE c1
        n2 == n1 + (IF FarSand(x, y) THEN (IF sand THEN 2 ELSE 1) ELSE 0)
        noise == (StreamAt(n2) - 5000) * 80
    IN << Max(0, Min(ColorScale, c2[1] + noise)),
          Max(0, Min(ColorScale, c2[2] + noise)),
          Max(0, Min(ColorScale, c2[3] + noise)),
          ColorScale >>

\* C20: the one random stream is consumed in raster-scan order (y outer, x
\* inner); a pixel makes 1 call plus 2 or 3 in the grass zone plus 1 or 2
\* in the sand zone, depending on whether the detail fires; so the k-th
\* pixel starts at the stream position given by the calls of all pixels
\* before it, and its values are those the stream holds from there on.
C20_StreamInRasterOrder ==
    /\ rng = ((seed - 1 + DrawsSoFar) % Len(RandTable)) + 1
    /\ \A k \in 1..Len(written) :
          /\ written[k].x = (k - 1) % tex_width
          /\ written[k].y = (k - 1) \div tex_width
          /\ written[k].draws = DrawsFor(written[k].x, written[k].y, written[k].details)
          /\ written[k].rgba = PixelFrom(DrawsBefore(k - 1), written[k].x, written[k].y)

\* a finished raster in which two pixels of the same zones made different
\* numbers of calls, and in which a pixel visited first, straight from the
\* seed, would have got other values than it has in the buffer
C20_Witness ==
    /\ Finished
    /\ \E j, k \in 1..Len(written) :
          /\ NearGrass(written[j].x, written[j].y) = NearGrass(written[k].x, written[k].y)
          /\ FarSand(written[j].x, written[j].y) = FarSand(written[k].x, written[k].y)
          /\ written[j].draws # written[k].draws
    /\ \E k \in 2..Len(written) :
          PixelFrom(0, written[k].x, written[k].y) # written[k].rgba

---------------------------------------------------------------------------
(* The height/noise kernel of the other island scripts.  Every script has  *)
(* its own copy of terrain_params, of the octave table and of the two      *)
(* functions; each copy is written out here in the units of the authentic  *)
(* script's model, and each script's vertex loop is run on one plane       *)
(* vertex.                                                                 *)

\* observatory_island_enhanced.py: get_surface_noise
EnhancedGetSurfaceNoise(x, z) ==
    LET octaves ==
            << [freq |-> 8,   amp |-> 25, angle_x |-> 73, angle_z |-> 37, phase_x |-> 21, phase_z |-> 58],
               [freq |-> 15,  amp |-> 15, angle_x |-> 28, angle_z |-> 52, phase_x |-> 17, phase_z |-> 34],
               [freq |-> 32,  amp |-> 8,  angle_x |-> 41, angle_z |-> 69, phase_x |-> 42, phase_z |-> 19],
               [freq |-> 67,  amp |-> 4,  angle_x |-> 19, angle_z |-> 83, phase_x |-> 9,  phase_z |-> 61],
               [freq |-> 123, amp |-> 2,  angle_x |-> 34, angle_z |-> 21, phase_x |-> 38, phase_z |-> 27] >>
        noise_value(octave) ==
            LET ax == (Pi * 10) \div octave.angle_x
                az == (Pi * 10) \div octave.angle_z
                x1 == (x * Cos(ax) - z * Sin(ax)) \div TrigScale
                z1 == (x * Sin(az) + z * Cos(az)) \div TrigScale
                sx == Sin((x1 + octave.phase_x * (DistScale \div 10)) * octave.freq)
                cz == Cos((z1 + octave.phase_z * (DistScale \div 10)) * octave.freq)
            IN (sx * cz) \div TrigScale
        RECURSIVE noise(_)
        \* `noise` after the first k iterations of `for octave in octaves`
        noise(k) ==
            IF k = 0 THEN 0
            ELSE noise(k - 1) + noise_value(octaves[k]) * octaves[k].amp
    IN noise(Len(octaves))

\* observatory_island_enhanced.py: calculate_terrain_height
EnhancedCalculateTerrainHeight(x, z) ==
    LET p == [hill_height |-> 15, hill_radius |-> 100, island_radius |-> 220,
              base_ground_level |-> -5]
        distance_from_center == Sqrt(x * x + z * z)
        ratio == (distance_from_center * TrigScale) \div (p.hill_radius * DistScale)
        height_multiplier == Cos(((ratio * Pi) \div TrigScale) \div 2)
        hill == p.base_ground_level * HeightScale
                + (p.hill_height * height_multiplier * height_multiplier) \div 100
        height == IF distance_from_center < p.hill_radius * DistScale
                  THEN hill ELSE p.base_ground_level * HeightScale
        void_distance == distance_from_center - p.island_radius * DistScale
        dropped == IF distance_from_center >= p.island_radius * DistScale
                   THEN p.base_ground_level * HeightScale - void_distance * void_distance
                   ELSE height
    IN dropped + EnhancedGetSurfaceNoise(x, z)

\* observatory_island_enhanced.py: one iteration of `for vert in bm.verts` on the script's own plane
EnhancedVisitVert ==
    /\ \A o \in others : o.script # "enhanced"
    /\ LET x == verts[1].x
           y == verts[1].y
           height == EnhancedCalculateTerrainHeight(x, y)
       IN others' = others \cup {[script |-> "enhanced", x |-> x, y |-> y, z |-> height,
                                  noise |-> EnhancedGetSurfaceNoise(x, y)]}

\* observatory_island_generator_final.py: get_surface_noise
FinalGetSurfaceNoise(x, z) ==
    LET octaves ==
            << [freq |-> 8,   amp |-> 25, angle_x |-> 73, angle_z |-> 37, phase_x |-> 21, phase_z |-> 58],
               [freq |-> 15,  amp |-> 15, angle_x |-> 28, angle_z |-> 52, phase_x |-> 17, phase_z |-> 34],
               [freq |-> 32,  amp |-> 8,  angle_x |-> 41, angle_z |-> 69, phase_x |-> 42, phase_z |-> 19],
               [freq |-> 67,  amp |-> 4,  angle_x |-> 19, angle_z |-> 83, phase_x |-> 9,  phase_z |-> 61],
               [freq |-> 123, amp |-> 2,  angle_x |-> 34, angle_z |-> 21, phase_x |-> 38, phase_z |-> 27] >>
        noise_value(octave) ==
            LET ax == (Pi * 10) \div octave.angle_x
                az == (Pi * 10) \div octave.angle_z
                x1 == (x * Cos(ax) - z * Sin(ax)) \div TrigScale
                z1 == (x * Sin(az) + z * Cos(az)) \div TrigScale
                sx == Sin((x1 + octave.phase_x * (DistScale \div 10)) * octave.freq)
                cz == Cos((z1 + octave.phase_z * (DistScale \div 10)) * octave.freq)
            IN (sx * cz) \div TrigScale
        RECURSIVE noise(_)
        \* `noise` after the first k iterations of `for octave in octaves`
        noise(k) ==
            IF k = 0 THEN 0
            ELSE noise(k - 1) + noise_value(octaves[k]) * octaves[k].amp
    IN noise(Len(octaves))

\* observatory_island_generator_final.py: calculate_terrain_height
FinalCalculateTerrainHeight(x, z) ==
    LET p == [hill_height |-> 15, hill_radius |-> 100, island_radius |-> 220,
              base_ground_level |-> -5]
        distance_from_center == Sqrt(x * x + z * z)
        ratio == (distance_from_center * TrigScale) \div (p.hill_radius * DistScale)
        height_multiplier == Cos(((ratio * Pi) \div TrigScale) \div 2)
        hill == p.base_ground_level * HeightScale
                + (p.hill_height * height_multiplier * height_multiplier) \div 100
        height == IF distance_from_center < p.hill_radius * DistScale
                  THEN hill ELSE p.base_ground_level * HeightScale
        void_distance == distance_from_center - p.island_radius * DistScale
        dropped == IF distance_from_center >= p.island_radius * DistScale
                   THEN p.base_ground_level * HeightScale - void_distance * void_distance
                   ELSE height
    IN dropped + FinalGetSurfaceNoise(x, z)

\* observatory_island_generator_final.py: one iteration of `for vert in bm.verts` on the script's own plane
FinalVisitVert ==
    /\ \A o \in others : o.script # "generator_final"
    /\ LET x == verts[1].x
           y == verts[1].y
           height == FinalCalculateTerrainHeight(x, y)
       IN others' = others \cup {[script |-> "generator_final", x |-> x, y |-> y, z |-> height,
                                  noise |-> FinalGetSurfaceNoise(x, y)]}

\* the noise without its last octave
FixedNoiseMutOneOctave(x, z) ==
    GetSurfaceNoise(x, z) - OctaveContribution(Octaves[Len(Octaves)], x, z)

\* observatory_island_generator_fixed.py: get_surface_noise
FixedGetSurfaceNoise(x, z) ==
    LET octaves ==
            << [freq |-> 8,   amp |-> 25, angle_x |-> 73, angle_z |-> 37, phase_x |-> 21, phase_z |-> 58],
               [freq |-> 15,  amp |-> 15, angle_x |-> 28, angle_z |-> 52, phase_x |-> 17, phase_z |-> 34],
               [freq |-> 32,  amp |-> 8,  angle_x |-> 41, angle_z |-> 69, phase_x |-> 42, phase_z |-> 19],
               [freq |-> 67,  amp |-> 4,  angle_x |-> 19, angle_z |-> 83, phase_x |-> 9,  phase_z |-> 61],
               [freq |-> 123, amp |-> 2,  angle_x |-> 34, angle_z |-> 21, phase_x |-> 38, phase_z |-> 27] >>
        noise_value(octave) ==
            LET ax == (Pi * 10) \div octave.angle_x
                az == (Pi * 10) \div octave.angle_z
                x1 == (x * Cos(ax) - z * Sin(ax)) \div TrigScale
                z1 == (x * Sin(az) + z * Cos(az)) \div TrigScale
                sx == Sin((x1 + octave.phase_x * (DistScale \div 10)) * octave.freq)
                cz == Cos((z1 + octave.phase_z * (DistScale \div 10)) * octave.freq)
            IN (sx * cz) \div TrigScale
        RECURSIVE noise(_)
        \* `noise` after the first k iterations of `for octave in octaves`
        noise(k) ==
            IF k = 0 THEN 0
            ELSE noise(k - 1) + noise_value(octaves[k]) * octaves[k].amp
    IN noise(Len(octaves))

\* observatory_island_generator_fixed.py: calculate_terrain_height
FixedCalculateTerrainHeight(x, z) ==
    LET p == [hill_height |-> 15, hill_radius |-> 100, island_radius |-> 220,
              base_ground_level |-> -5]
        distance_from_center == Sqrt(x * x + z * z)
        ratio == (distance_from_center * TrigScale) \div (p.hill_radius * DistScale)
        height_multiplier == Cos(((ratio * Pi) \div TrigScale) \div 2)
        hill == p.base_ground_level * HeightScale
                + (p.hill_height * height_multiplier * height_multiplier) \div 100
        height == IF distance_from_center < p.hill_radius * DistScale
                  THEN hill ELSE p.base_ground_level * HeightScale
        void_distance == distance_from_center - p.island_radius * DistScale
        dropped == IF distance_from_center >= p.island_radius * DistScale
                   THEN p.base_ground_level * HeightScale - void_distance * void_distance
                   ELSE height
    IN dropped + FixedGetSurfaceNoise(x, z)

\* observatory_island_generator_fixed.py: one iteration of `for vert in bm.verts` on the script's own plane
FixedVisitVert ==
    /\ \A o \in others : o.script # "generator_fixed"
    /\ LET x == verts[1].x
           y == verts[1].y
           height == FixedCalculateTerrainHeight(x, y)
       IN others' = others \cup {[script |-> "generator_fixed", x |-> x, y |-> y, z |-> height,
                                  noise |-> FixedGetSurfaceNoise(x, y)]}

\* observatory_island_simple_enhanced.py: get_surface_noise
SimpleGetSurfaceNoise(x, z) ==
    LET octaves ==
            << [freq |-> 8,   amp |-> 25, angle_x |-> 73, angle_z |-> 37, phase_x |-> 21, phase_z |-> 58],
               [freq |-> 15,  amp |-> 15, angle_x |-> 28, angle_z |-> 52, phase_x |-> 17, phase_z |-> 34],
               [freq |-> 32,  amp |-> 8,  angle_x |-> 41, angle_z |-> 69, phase_x |-> 42, phase_z |-> 19],
               [freq |-> 67,  amp |-> 4,  angle_x |-> 19, angle_z |-> 83, phase_x |-> 9,  phase_z |-> 61],
               [freq |-> 123, amp |-> 2,  angle_x |-> 34, angle_z |-> 21, phase_x |-> 38, phase_z |-> 27] >>
        noise_value(octave) ==
            LET ax == (Pi * 10) \div octave.angle_x
                az == (Pi * 10) \div octave.angle_z
                x1 == (x * Cos(ax) - z * Sin(ax)) \div TrigScale
                z1 == (x * Sin(az) + z * Cos(az)) \div TrigScale
                sx == Sin((x1 + octave.phase_x * (DistScale \div 10)) * octave.freq)
                cz == Cos((z1 + octave.phase_z * (DistScale \div 10)) * octave.freq)
            IN (sx * cz) \div TrigScale
        RECURSIVE noise(_)
        \* `noise` after the first k iterations of `for octave in octaves`
        noise(k) ==
            IF k = 0 THEN 0
            ELSE noise(k - 1) + noise_value(octaves[k]) * octaves[k].amp
    IN noise(Len(octaves))

\* observatory_island_simple_enhanced.py: calculate_terrain_height
SimpleCalculateTerrainHeight(x, z) ==
    LET p == [hill_height |-> 15, hill_radius |-> 100, island_radius |-> 220,
              base_ground_level |-> -5]
        distance_from_center == Sqrt(x * x + z * z)
        ratio == (distance_from_center * TrigScale) \div (p.hill_radius * DistScale)
        height_multiplier == Cos(((ratio * Pi) \div TrigScale) \div 2)
        hill == p.base_ground_level * HeightScale
                + (p.hill_height * height_multiplier * height_multiplier) \div 100
        height == IF distance_from_center < p.hill_radius * DistScale
                  THEN hill ELSE p.base_ground_level * HeightScale
        void_distance == distance_from_center - p.island_radius * DistScale
        dropped == IF distance_from_center >= p.island_radius * DistScale
                   THEN p.base_ground_level * HeightScale - void_distance * void_distance
                   ELSE height
    IN dropped + SimpleGetSurfaceNoise(x, z)

\* observatory_island_simple_enhanced.py: one iteration of `for vert in bm.verts` on the script's own plane
SimpleVisitVert ==
    /\ \A o \in others : o.script # "simple_enhanced"
    /\ LET x == verts[1].x
           y == verts[1].y
           height == SimpleCalculateTerrainHeight(x, y)
       IN others' = others \cup {[script |-> "simple_enhanced", x |-> x, y |-> y, z |-> height,
                                  noise |-> SimpleGetSurfaceNoise(x, y)]}

\* every script starts from the same flat plane (here: one of its vertices)
InitKernels ==
    /\ terrain_params = TerrainParams
    /\ rng = 0
    /\ seed = 0
    /\ verts \in {<<PlaneVert(p)>> : p \in Points}
    /\ vi = 1
    /\ dists = <<>>
    /\ noises = <<>>
    /\ tpc = "start"
    /\ px = 0
    /\ py = 0
    /\ dist_from_center = 0
    /\ normalized_dist = 0
    /\ color = <<>>
    /\ draws = 0
    /\ final_color = <<>>
    /\ tex_width = 0
    /\ tex_height = 0
    /\ pixels = <<>>
    /\ base_color = <<>>
    /\ details = <<>>
    /\ dither = <<>>
    /\ written = <<>>
    /\ run = 1
    /\ first_pixels = <<>>
    /\ others = {}
    /\ filename = <<>>
    /\ returned = {}
    /\ main_pc = "copy"
    /\ kit = {}
    /\ blends = {}
    /\ blend_i = 1
    /\ model_dirs = {}
    /\ library = {}
    /\ manifest = {}
    /\ total = -1
    /\ steps = <<>>
    /\ objects = <<>>
    /\ obj_i = 1
    /\ extracted_models = {}
    /\ exports = <<>>
    /\ total_printed = -1

NextKernels ==
    \/ (VisitVert /\ UNCHANGED textureVars /\ UNCHANGED configVars /\ UNCHANGED rngVars /\ UNCHANGED kernelVars /\ UNCHANGED toolVars)
    \/ (EnhancedVisitVert /\ UNCHANGED terrainVars /\ UNCHANGED textureVars /\ UNCHANGED configVars /\ UNCHANGED rngVars /\ UNCHANGED toolVars)
    \/ (FinalVisitVert /\ UNCHANGED terrainVars /\ UNCHANGED textureVars /\ UNCHANGED configVars /\ UNCHANGED rngVars /\ UNCHANGED toolVars)
    \/ (FixedVisitVert /\ UNCHANGED terrainVars /\ UNCHANGED textureVars /\ UNCHANGED configVars /\ UNCHANGED rngVars /\ UNCHANGED toolVars)
    \/ (SimpleVisitVert /\ UNCHANGED terrainVars /\ UNCHANGED textureVars /\ UNCHANGED configVars /\ UNCHANGED rngVars /\ UNCHANGED toolVars)

SpecKernels == InitKernels /\ [][NextKernels]_vars

Scripts == {"enhanced", "generator_final", "generator_fixed", "simple_enhanced"}

\* C21: for every (x, z), calculate_terrain_height and get_surface_noise of
\* the enhanced, final, fixed and simple_enhanced scripts return what the
\* authentic script's functions return: whenever a script and the authentic
\* script have both processed the vertex, they agree on its height and on
\* its noise, and any two of the scripts agree with each other.
C21_SameKernelEverywhere ==
    /\ \A o \in others :
          vi > 1 => /\ o.x = verts[1].x /\ o.y = verts[1].y
                    /\ o.z = verts[1].z
                    /\ o.noise = noises[1]
    /\ \A o1, o2 \in others : o1.z = o2.z /\ o1.noise = o2.noise

\* all five scripts have processed a vertex of the hill whose noise is not 0
C21_Witness ==
    /\ vi > 1
    /\ {o.script : o \in others} = Scripts
    /\ dists[1] > 0
    /\ dists[1] < HillRadius * DistScale
    /\ noises[1] # 0
    /\ verts[1].z # BaseGroundLevel * HeightScale

---------------------------------------------------------------------------
(* The asset tools (organize_assets.py, extract_nature.py,                 *)
(* extract_models.py, extract_forest_models.py).  A str is a sequence of   *)
(* one-character strings.                                                  *)

AsciiUpper == <<"A", "B", "C", "D", "E", "F", "G", "H", "I", "J", "K", "L", "M", "N", "O", "P", "Q", "R", "S", "T", "U", "V", "W", "X", "Y", "Z">>
AsciiLower == <<"a", "b", "c", "d", "e", "f", "g", "h", "i", "j", "k", "l", "m", "n", "o", "p", "q", "r", "s", "t", "u", "v", "w", "x", "y", "z">>

\* str.lower()
Lower(s) ==
    [i \in 1..Len(s) |->
        IF \E k \in 1..Len(AsciiUpper) : AsciiUpper[k] = s[i]
        THEN AsciiLower[CHOOSE k \in 1..Len(AsciiUpper) : AsciiUpper[k] = s[i]]
        ELSE s[i]]

\* keyword in s
Contains(s, keyword) ==
    \E i \in 0..(Len(s) - Len(keyword)) : SubSeq(s, i + 1, i + Len(keyword)) = keyword

\* any(keyword in s for keyword in keywords)
AnyIn(keywords, s) == \E k \in 1..Len(keywords) : Contains(s, keywords[k])

\* organize_assets.categorize_scifi_model
CategorizeScifiModel(name) ==
    LET name_lower == Lower(name)
    IN IF Contains(name_lower, <<"a", "l", "i", "e", "n", "_">>) THEN "decorative"
       ELSE IF AnyIn(<<<<"c", "o", "l", "u", "m", "n", "_">>, <<"w", "a", "l", "l">>, <<"b", "o", "t", "t", "o", "m">>, <<"t", "o", "p">>, <<"s", "h", "o", "r", "t">>>>, name_lower)
            THEN "structures"
       ELSE IF AnyIn(<<<<"p", "l", "a", "t", "f", "o", "r", "m", "_">>, <<"d", "o", "o", "r", "_">>>>, name_lower) THEN "structures"
       ELSE IF Contains(name_lower, <<"p", "r", "o", "p", "_">>) THEN "decorative"
       ELSE IF Contains(name_lower, <<"d", "e", "c", "a", "l", "_">>) THEN "decorative"
       ELSE "structures"

\* the keyword lists of organize_assets.categorize_nature_model, in the order
\* of its if/elif chain
NatureModelKeywords ==
    << <<<<"t", "r", "e", "e">>, <<"p", "i", "n", "e">>, <<"f", "i", "r">>, <<"o", "a", "k">>, <<"t", "r", "u", "n", "k">>, <<"b", "r", "a", "n", "c", "h">>>>,
       <<<<"r", "o", "c", "k">>, <<"s", "t", "o", "n", "e">>, <<"b", "o", "u", "l", "d", "e", "r">>, <<"c", "l", "i", "f", "f">>>>,
       <<<<"g", "r", "a", "s", "s">>, <<"f", "e", "r", "n">>, <<"b", "u", "s", "h">>, <<"p", "l", "a", "n", "t">>, <<"f", "l", "o", "w", "e", "r">>, <<"l", "e", "a", "f">>>>,
       <<<<"l", "o", "g">>, <<"s", "t", "u", "m", "p">>, <<"m", "u", "s", "h", "r", "o", "o", "m">>, <<"d", "e", "b", "r", "i", "s">>>> >>

\* organize_assets.categorize_nature_model
CategorizeNatureModel(name) ==
    LET name_lower == Lower(name)
    IN IF AnyIn(NatureModelKeywords[1], name_lower) THEN "trees"
       ELSE IF AnyIn(NatureModelKeywords[2], name_lower) THEN "rocks"
       ELSE IF AnyIn(NatureModelKeywords[3], name_lower) THEN "vegetation"
       ELSE IF AnyIn(NatureModelKeywords[4], name_lower) THEN "decorative"
       ELSE "vegetation"

\* the keyword lists of extract_nature.categorize_object
NatureObjectKeywords ==
    << <<<<"t", "r", "e", "e">>, <<"p", "i", "n", "e">>, <<"f", "i", "r">>, <<"o", "a", "k">>, <<"t", "r", "u", "n", "k">>, <<"b", "r", "a", "n", "c", "h">>>>,
       <<<<"r", "o", "c", "k">>, <<"s", "t", "o", "n", "e">>, <<"b", "o", "u", "l", "d", "e", "r">>, <<"c", "l", "i", "f", "f">>>>,
       <<<<"g", "r", "a", "s", "s">>, <<"f", "e", "r", "n">>, <<"b", "u", "s", "h">>, <<"p", "l", "a", "n", "t">>, <<"f", "l", "o", "w", "e", "r">>, <<"l", "e", "a", "f">>>>,
       <<<<"l", "o", "g">>, <<"s", "t", "u", "m", "p">>, <<"m", "u", "s", "h", "r", "o", "o", "m">>, <<"d", "e", "b", "r", "i", "s">>>> >>

\* extract_nature.categorize_object
NatureCategorizeObject(obj_name) ==
    LET name_lower == Lower(obj_name)
    IN IF AnyIn(NatureObjectKeywords[1], name_lower) THEN "trees"
       ELSE IF AnyIn(NatureObjectKeywords[2], name_lower) THEN "rocks"
       ELSE IF AnyIn(NatureObjectKeywords[3], name_lower) THEN "vegetation"
       ELSE IF AnyIn(NatureObjectKeywords[4], name_lower) THEN "decorative"
       ELSE "vegetation"

\* the keyword lists of extract_models.categorize_object
ModelsObjectKeywords ==
    << <<<<"p", "i", "n", "e">>, <<"f", "i", "r">>, <<"t", "r", "e", "e">>, <<"t", "r", "u", "n", "k">>, <<"b", "r", "a", "n", "c", "h">>>>,
       <<<<"r", "o", "c", "k">>, <<"s", "t", "o", "n", "e">>, <<"b", "o", "u", "l", "d", "e", "r">>, <<"c", "l", "i", "f", "f">>>>,
       <<<<"g", "r", "a", "s", "s">>, <<"f", "e", "r", "n">>, <<"b", "u", "s", "h">>, <<"p", "l", "a", "n", "t">>, <<"v", "e", "g", "e", "t", "a", "t", "i", "o", "n">>>>,
       <<<<"r", "u", "i", "n">>, <<"w", "a", "l", "l">>, <<"s", "t", "r", "u", "c", "t", "u", "r", "e">>, <<"b", "u", "i", "l", "d", "i", "n", "g">>>>,
       <<<<"l", "o", "g">>, <<"s", "t", "u", "m", "p">>, <<"m", "u", "s", "h", "r", "o", "o", "m">>, <<"d", "e", "b", "r", "i", "s">>>> >>

\* extract_models.categorize_object (obj_type is not read)
ModelsCategorizeObject(obj_name) ==
    LET name_lower == Lower(obj_name)
    IN IF AnyIn(ModelsObjectKeywords[1], name_lower) THEN "trees"
       ELSE IF AnyIn(ModelsObjectKeywords[2], name_lower) THEN "rocks"
       ELSE IF AnyIn(ModelsObjectKeywords[3], name_lower) THEN "vegetation"
       ELSE IF AnyIn(ModelsObjectKeywords[4], name_lower) THEN "structures"
       ELSE IF AnyIn(ModelsObjectKeywords[5], name_lower) THEN "decorative"
       ELSE "misc"

\* the keyword lists of extract_forest_models.classify_object
ForestKeywords ==
    << <<<<"p", "i", "n", "e">>, <<"f", "i", "r">>, <<"t", "r", "e", "e">>, <<"t", "r", "u", "n", "k">>, <<"b", "r", "a", "n", "c", "h">>>>,
       <<<<"r", "o", "c", "k">>, <<"s", "t", "o", "n", "e">>, <<"b", "o", "u", "l", "d", "e", "r">>>>,
       <<<<"g", "r", "a", "s", "s">>, <<"f", "e", "r", "n">>, <<"p", "l", "a", "n", "t">>, <<"l", "e", "a", "f">>>>,
       <<<<"g", "r", "o", "u", "n", "d">>, <<"t", "e", "r", "r", "a", "i", "n">>, <<"s", "o", "i", "l">>>> >>

\* rocks tested before trees
ClassifyMutRocksFirst(obj_name) ==
    LET name == Lower(obj_name)
    IN IF AnyIn(ForestKeywords[2], name) THEN "rocks"
       ELSE IF AnyIn(ForestKeywords[1], name) THEN "trees"
       ELSE IF AnyIn(ForestKeywords[3], name) THEN "vegetation"
       ELSE IF AnyIn(ForestKeywords[4], name) THEN "ground"
       ELSE "other"

\* extract_forest_models.classify_object, for an object named obj_name
ClassifyObject(obj_name) ==
    LET name == Lower(obj_name)
    IN IF AnyIn(ForestKeywords[1], name) THEN "trees"
       ELSE IF AnyIn(ForestKeywords[2], name) THEN "rocks"
       ELSE IF AnyIn(ForestKeywords[3], name) THEN "vegetation"
       ELSE IF AnyIn(ForestKeywords[4], name) THEN "ground"
       ELSE "other"

---------------------------------------------------------------------------
(* The Blender script that extract_from_blender holds as text (lines       *)
(* 143-203): how it names and categorizes one object.  The text is an      *)
(* f-string of extract_from_blender; see BuildExtractScript for what       *)
(* happens when it is evaluated.                                           *)

\* c.isalnum() or c in (' ', '-', '_')
KeptInFilename(c) ==
    \/ \E k \in 1..Len(AsciiUpper) : c = AsciiUpper[k] \/ c = AsciiLower[k]
    \/ c \in {"0", "1", "2", "3", "4", "5", "6", "7", "8", "9"}
    \/ c \in {" ", "-", "_"}

RECURSIVE RStrip(_)
\* str.rstrip()
RStrip(s) == IF s # <<>> /\ s[Len(s)] = " " THEN RStrip(SubSeq(s, 1, Len(s) - 1)) ELSE s

RECURSIVE LStrip(_)
\* str.lstrip()
LStrip(s) == IF s # <<>> /\ s[1] = " " THEN LStrip(Tail(s)) ELSE s

\* str.replace(' ', '_')
SpacesToUnderscores(s) == [i \in 1..Len(s) |-> IF s[i] = " " THEN "_" ELSE s[i]]

\* blend_info["name"] of the two entries of blend_files
BlendNames == <<<<"p", "i", "n", "e", "_", "f", "o", "r", "e", "s", "t">>, <<"n", "a", "t", "u", "r", "e", "_", "p", "a", "c", "k">>>>

\* lines 162-164 of the script text, {blend_info['name']} filled in
ScriptCleanName(blend_name, obj_name) ==
    LET kept == LStrip(RStrip(SelectSeq(obj_name, KeptInFilename)))
        clean_name == Lower(SpacesToUnderscores(kept))
    IN blend_name \o <<"_">> \o clean_name

\* lines 167-173 of the script text
ScriptCategory(clean_name) ==
    IF AnyIn(<<<<"t", "r", "e", "e">>, <<"p", "i", "n", "e">>, <<"f", "i", "r">>, <<"t", "r", "u", "n", "k">>>>, Lower(clean_name)) THEN "trees"
    ELSE IF AnyIn(<<<<"r", "o", "c", "k">>, <<"s", "t", "o", "n", "e">>, <<"b", "o", "u", "l", "d", "e", "r">>>>, Lower(clean_name)) THEN "rocks"
    ELSE IF AnyIn(<<<<"g", "r", "a", "s", "s">>, <<"f", "e", "r", "n">>, <<"b", "u", "s", "h">>>>, Lower(clean_name)) THEN "vegetation"
    ELSE "vegetation"

\* the script's naming and categorizing of an object called `filename`
CallExtractScript ==
    /\ returned = {}
    /\ \E b \in 1..Len(BlendNames) :
          returned' = {[fn |-> "extract_script", blend |-> BlendNames[b],
                        category |-> ScriptCategory(ScriptCleanName(BlendNames[b], filename))]}
    /\ UNCHANGED filename

---------------------------------------------------------------------------
(* Names: up to MaxParts fragments of file and object names put together.  *)

MaxParts == 2

Parts ==
    { <<"P", "r", "o", "p", "_">>, <<"A", "l", "i", "e", "n", "_">>, <<"D", "e", "c", "a", "l", "_">>, <<"C", "o", "l", "u", "m", "n", "_">>, <<"T", "o", "p">>, <<"D", "o", "o", "r", "_">>, <<"C", "r", "a", "t", "e">>,
      <<"P", "i", "n", "e">>, <<"R", "o", "c", "k">>, <<"F", "e", "r", "n">>, <<"L", "o", "g">>, <<"C", "l", "i", "f", "f">>, <<"G", "r", "o", "u", "n", "d">>, <<"R", "u", "i", "n">>, <<"F", "i", "r", "e">>,
      <<"M", "o", "s", "s">>, <<" ">>, <<".">>, <<"1">> }

RECURSIVE NamesOf(_)
NamesOf(n) ==
    IF n = 1 THEN Parts
    ELSE NamesOf(n - 1) \cup {a \o b : a \in NamesOf(n - 1), b \in Parts}

Names == NamesOf(MaxParts)

\* each categorizer is called once with the same name
InitCategorize ==
    /\ terrain_params = TerrainParams
    /\ rng = 0
    /\ seed = 0
    /\ verts = <<>>
    /\ vi = 1
    /\ dists = <<>>
    /\ noises = <<>>
    /\ tpc = "start"
    /\ px = 0
    /\ py = 0
    /\ dist_from_center = 0
    /\ normalized_dist = 0
    /\ color = <<>>
    /\ draws = 0
    /\ final_color = <<>>
    /\ tex_width = 0
    /\ tex_height = 0
    /\ pixels = <<>>
    /\ base_color = <<>>
    /\ details = <<>>
    /\ dither = <<>>
    /\ written = <<>>
    /\ run = 1
    /\ first_pixels = <<>>
    /\ others = {}
    /\ filename \in Names
    /\ returned = {}
    /\ main_pc = "copy"
    /\ kit = {}
    /\ blends = {}
    /\ blend_i = 1
    /\ model_dirs = {}
    /\ library = {}
    /\ manifest = {}
    /\ total = -1
    /\ steps = <<>>
    /\ objects = <<>>
    /\ obj_i = 1
    /\ extracted_models = {}
    /\ exports = <<>>
    /\ total_printed = -1

\* categorize_scifi_model(filename)
CallCategorizeScifiModel ==
    /\ returned = {}
    /\ returned' = {[fn |-> "categorize_scifi_model", category |-> CategorizeScifiModel(filename)]}
    /\ UNCHANGED filename

\* categorize_nature_model(filename)
CallCategorizeNatureModel ==
    /\ returned = {}
    /\ returned' = {[fn |-> "categorize_nature_model", category |-> CategorizeNatureModel(filename)]}
    /\ UNCHANGED filename

\* extract_nature.categorize_object(obj.name)
CallNatureCategorizeObject ==
    /\ returned = {}
    /\ returned' = {[fn |-> "extract_nature.categorize_object",
                     category |-> NatureCategorizeObject(filename)]}
    /\ UNCHANGED filename

\* extract_models.categorize_object(obj.name, obj.type)
CallModelsCategorizeObject ==
    /\ returned = {}
    /\ returned' = {[fn |-> "extract_models.categorize_object",
                     category |-> ModelsCategorizeObject(filename)]}
    /\ UNCHANGED filename

\* extract_forest_models.classify_object(obj)
CallClassifyObject ==
    /\ returned = {}
    /\ returned' = {[fn |-> "classify_object", category |-> ClassifyObject(filename)]}
    /\ UNCHANGED filename

NextCategorize ==
    \/ (CallCategorizeScifiModel /\ UNCHANGED islandVars /\ UNCHANGED organizeVars /\ UNCHANGED sceneVars)
    \/ (CallCategorizeNatureModel /\ UNCHANGED islandVars /\ UNCHANGED organizeVars /\ UNCHANGED sceneVars)
    \/ (CallNatureCategorizeObject /\ UNCHANGED islandVars /\ UNCHANGED organizeVars /\ UNCHANGED sceneVars)
    \/ (CallModelsCategorizeObject /\ UNCHANGED islandVars /\ UNCHANGED organizeVars /\ UNCHANGED sceneVars)
    \/ (CallClassifyObject /\ UNCHANGED islandVars /\ UNCHANGED organizeVars /\ UNCHANGED sceneVars)
    \/ (CallExtractScript /\ UNCHANGED islandVars /\ UNCHANGED organizeVars /\ UNCHANGED sceneVars)

SpecCategorize == InitCategorize /\ [][NextCategorize]_vars

\* C26: every filename containing 'prop_', 'alien_' or 'decal_' is
\* categorized as 'decorative' by categorize_scifi_model, whatever other
\* keywords the name contains.
C26_PropsStayDecorative ==
    \A r \in returned :
        (/\ r.fn = "categorize_scifi_model"
         /\ \/ Contains(Lower(filename), <<"p", "r", "o", "p", "_">>)
            \/ Contains(Lower(filename), <<"a", "l", "i", "e", "n", "_">>)
            \/ Contains(Lower(filename), <<"d", "e", "c", "a", "l", "_">>))
        => r.category = "decorative"

\* what C27 says of each nature/forest categorizer: the categories of its
\* keyword groups in the order they are tested, and its default
NatureCategorizers ==
    { [fn |-> "categorize_nature_model", keywords |-> NatureModelKeywords,
       categories |-> <<"trees", "rocks", "vegetation", "decorative">>,
       default |-> "vegetation"],
      [fn |-> "extract_nature.categorize_object", keywords |-> NatureObjectKeywords,
       categories |-> <<"trees", "rocks", "vegetation", "decorative">>,
       default |-> "vegetation"],
      [fn |-> "extract_models.categorize_object", keywords |-> ModelsObjectKeywords,
       categories |-> <<"trees", "rocks", "vegetation", "structures", "decorative">>,
       default |-> "misc"],
      [fn |-> "classify_object", keywords |-> ForestKeywords,
       categories |-> <<"trees", "rocks", "vegetation", "ground">>,
       default |-> "other"] }

\* the keyword groups of c that have a keyword in the lower-cased name
GroupsHit(c, name) ==
    {k \in 1..Len(c.keywords) : AnyIn(c.keywords[k], Lower(name))}

\* the category of the earliest group hit, or the default
EarliestCategory(c, name) ==
    IF GroupsHit(c, name) = {} THEN c.default
    ELSE c.categories[CHOOSE k \in GroupsHit(c, name) : \A j \in GroupsHit(c, name) : k <= j]

\* C27: each nature/forest categorizer returns exactly one category for any
\* name: the category of the earliest keyword group (trees, rocks,
\* vegetation, then the others) that has a keyword in the name, and the
\* script's default when no group has one.
C27_TotalFirstMatch ==
    /\ Cardinality(returned) <= 1
    /\ \A r \in returned : \A c \in NatureCategorizers :
          r.fn = c.fn =>
             /\ Len(c.categories) = Len(c.keywords)
             /\ SubSeq(c.categories, 1, 3) = <<"trees", "rocks", "vegetation">>
             /\ r.category = EarliestCategory(c, filename)

\* classify_object was called with a name that has keywords of a later
\* group and of the trees group
C27_Witness ==
    \E r \in returned : \E c \in NatureCategorizers :
        /\ r.fn = "classify_object"
        /\ c.fn = r.fn
        /\ Cardinality(GroupsHit(c, filename)) >= 2
        /\ 1 \in GroupsHit(c, filename)
        /\ r.category = "trees"

---------------------------------------------------------------------------
(* organize_assets.main and its three steps *)

\* s.endswith(suffix)
EndsWith(s, suffix) ==
    Len(s) >= Len(suffix) /\ SubSeq(s, Len(s) - Len(suffix) + 1, Len(s)) = suffix

RECURSIVE Without(_, _)
\* s.replace(sub, '')
Without(s, sub) ==
    IF Len(s) < Len(sub) THEN s
    ELSE IF SubSeq(s, 1, Len(sub)) = sub THEN Without(SubSeq(s, Len(sub) + 1, Len(s)), sub)
    ELSE <<s[1]>> \o Without(Tail(s), sub)

\* where os.path.splitext(file) splits: the index of the last dot that has a
\* character other than a dot before it, or Len(file) + 1
ExtensionAt(file) ==
    LET dots == {i \in 2..Len(file) :
                    file[i] = "." /\ \E j \in 1..(i - 1) : file[j] # "."}
    IN IF dots = {} THEN Len(file) + 1
       ELSE CHOOSE i \in dots : \A j \in dots : j <= i

\* os.path.splitext(file)[0]
SplitStem(file) == SubSeq(file, 1, ExtensionAt(file) - 1)

\* files of the SciFi kit
KitFiles == { <<"P", "r", "o", "p", "_", "C", "r", "a", "t", "e", ".", "f", "b", "x">>, <<"P", "r", "o", "p", "_", "T", "o", "p", ".", "f", "b", "x">>, <<"C", "o", "l", "u", "m", "n", " ", "1", ".", "f", "b", "x">>, <<"r", "e", "a", "d", "m", "e", ".", "t", "x", "t">> }

\* files that may already lie under shared/models
LibraryFiles ==
    { [dir |-> "trees", file |-> <<"p", "i", "n", "e", ".", "g", "l", "b">>], [dir |-> "trees", file |-> <<"p", "i", "n", "e", ".", "f", "b", "x">>],
      [dir |-> "trees", file |-> <<"n", "o", "t", "e", "s", ".", "t", "x", "t">>], [dir |-> "rocks", file |-> <<"r", "o", "c", "k", ".", "o", "b", "j">>],
      [dir |-> "misc", file |-> <<"c", "r", "a", "t", "e", ".", "g", "l", "b">>] }

InitOrganize ==
    /\ terrain_params = TerrainParams
    /\ rng = 0
    /\ seed = 0
    /\ verts = <<>>
    /\ vi = 1
    /\ dists = <<>>
    /\ noises = <<>>
    /\ tpc = "start"
    /\ px = 0
    /\ py = 0
    /\ dist_from_center = 0
    /\ normalized_dist = 0
    /\ color = <<>>
    /\ draws = 0
    /\ final_color = <<>>
    /\ tex_width = 0
    /\ tex_height = 0
    /\ pixels = <<>>
    /\ base_color = <<>>
    /\ details = <<>>
    /\ dither = <<>>
    /\ written = <<>>
    /\ run = 1
    /\ first_pixels = <<>>
    /\ others = {}
    /\ filename = <<>>
    /\ returned = {}
    /\ main_pc = "copy"
    /\ kit \in SUBSET KitFiles
    /\ blends \in SUBSET (1..Len(BlendNames))
    /\ blend_i = 1
    /\ library \in SUBSET LibraryFiles
    /\ model_dirs = {f.dir : f \in library}
    /\ manifest = {}
    /\ total = -1
    /\ steps = <<>>
    /\ objects = <<>>
    /\ obj_i = 1
    /\ extracted_models = {}
    /\ exports = <<>>
    /\ total_printed = -1

\* copy_fbx_assets returns: every .fbx file of the kit got its category
\* directory, and was copied unless shutil.copy2 raised for it
CopyFbxAssets ==
    /\ main_pc = "copy"
    /\ LET fbx == {file \in kit : EndsWith(file, <<".", "f", "b", "x">>)}
           dest(file) ==
               LET clean_name == SpacesToUnderscores(Lower(Without(file, <<".", "f", "b", "x">>)))
               IN [dir |-> CategorizeScifiModel(file),
                   file |-> <<"s", "c", "i", "f", "i", "_">> \o clean_name \o <<".", "f", "b", "x">>]
       IN /\ model_dirs' = model_dirs \cup {CategorizeScifiModel(file) : file \in fbx}
          /\ \E copied \in SUBSET fbx :
                library' = library \cup {dest(file) : file \in copied}
    /\ steps' = Append(steps, [step |-> "copy_fbx_assets", ended |-> "returned"])
    /\ main_pc' = "extract"
    /\ UNCHANGED <<kit, blends, blend_i, manifest, total>>

\* os.makedirs raises in copy_fbx_assets: main has no handler around step 1
CopyFbxAssetsRaises ==
    /\ main_pc = "copy"
    /\ \E file \in kit : EndsWith(file, <<".", "f", "b", "x">>)
    /\ steps' = Append(steps, [step |-> "copy_fbx_assets", ended |-> "raised"])
    /\ main_pc' = "failed"
    /\ UNCHANGED <<kit, blends, blend_i, model_dirs, library, manifest, total>>

\* extract_from_blender: `if not os.path.exists(blend_info["path"]): continue`
SkipMissingBlend ==
    /\ main_pc = "extract"
    /\ blend_i <= Len(BlendNames)
    /\ blend_i \notin blends
    /\ blend_i' = blend_i + 1
    /\ UNCHANGED <<main_pc, kit, blends, model_dirs, library, manifest, total, steps>>

\* the exception is not caught by main
BuildMutUncaught ==
    /\ main_pc = "extract"
    /\ blend_i <= Len(BlendNames)
    /\ blend_i \in blends
    /\ steps' = Append(steps, [step |-> "extract_from_blender", ended |-> "raised"])
    /\ main_pc' = "failed"
    /\ UNCHANGED <<kit, blends, blend_i, model_dirs, library, manifest, total>>

\* extract_from_blender: the blend file exists and `extract_script = f'''...'''`
\* is evaluated.  Its replacement field {clean_name} (line 164) names a
\* variable of the script, not of extract_from_blender: NameError.  It leaves
\* extract_from_blender before the temporary script is written and is caught
\* by main (lines 303-307).
BuildExtractScript ==
    /\ main_pc = "extract"
    /\ blend_i <= Len(BlendNames)
    /\ blend_i \in blends
    /\ steps' = Append(steps, [step |-> "extract_from_blender", ended |-> "raised"])
    /\ main_pc' = "manifest"
    /\ UNCHANGED <<kit, blends, blend_i, model_dirs, library, manifest, total>>

\* extract_from_blender: the loop is over, `return models_data`
ReturnFromExtract ==
    /\ main_pc = "extract"
    /\ blend_i > Len(BlendNames)
    /\ steps' = Append(steps, [step |-> "extract_from_blender", ended |-> "returned"])
    /\ main_pc' = "manifest"
    /\ UNCHANGED <<kit, blends, blend_i, model_dirs, library, manifest, total>>

\* categories = [...]
ManifestCategories == {"trees", "rocks", "vegetation", "structures", "decorative"}

\* update_library_manifest: models[category][model_name] = {...} for every
\* listed file with a model extension; a later file with the same model_name
\* replaces the earlier one (os.listdir gives the files in any order)
UpdateLibraryManifest ==
    /\ main_pc = "manifest"
    /\ LET listed == {f \in library :
                        /\ f.dir \in ManifestCategories \cap model_dirs
                        /\ \/ EndsWith(f.file, <<".", "g", "l", "b">>)
                           \/ EndsWith(f.file, <<".", "f", "b", "x">>)
                           \/ EndsWith(f.file, <<".", "o", "b", "j">>)}
           entry(f) == [category |-> f.dir, name |-> SplitStem(f.file), file |-> f.file]
           keys == {<<f.dir, SplitStem(f.file)>> : f \in listed}
       IN /\ \E kept \in SUBSET listed :
                /\ \A k \in keys :
                      Cardinality({f \in kept : <<f.dir, SplitStem(f.file)>> = k}) = 1
                /\ manifest' = {entry(f) : f \in kept}
          /\ total' = Cardinality(keys)
    /\ steps' = Append(steps, [step |-> "update_library_manifest", ended |-> "returned"])
    /\ main_pc' = "done"
    /\ UNCHANGED <<kit, blends, blend_i, model_dirs, library>>

NextOrganize ==
    \/ (CopyFbxAssets /\ UNCHANGED islandVars /\ UNCHANGED categorizeVars /\ UNCHANGED sceneVars)
    \/ (CopyFbxAssetsRaises /\ UNCHANGED islandVars /\ UNCHANGED categorizeVars /\ UNCHANGED sceneVars)
    \/ (SkipMissingBlend /\ UNCHANGED islandVars /\ UNCHANGED categorizeVars /\ UNCHANGED sceneVars)
    \/ (BuildExtractScript /\ UNCHANGED islandVars /\ UNCHANGED categorizeVars /\ UNCHANGED sceneVars)
    \/ (ReturnFromExtract /\ UNCHANGED islandVars /\ UNCHANGED categorizeVars /\ UNCHANGED sceneVars)
    \/ (UpdateLibraryManifest /\ UNCHANGED islandVars /\ UNCHANGED categorizeVars /\ UNCHANGED sceneVars)

\* main is a sequential program: it keeps running until it returns or raises
SpecOrganize == InitOrganize /\ [][NextOrganize]_vars /\ WF_vars(NextOrganize)

\* the order of main's three steps
MainOrder == <<"copy_fbx_assets", "extract_from_blender", "update_library_manifest">>

\* the Blender extraction step has ended and had a failure: a blend file was
\* missing, or an exception left extract_from_blender
ExtractionFailed ==
    \E i \in 1..Len(steps) :
        /\ steps[i].step = "extract_from_blender"
        /\ \/ steps[i].ended = "raised"
           \/ blends # 1..Len(BlendNames)

ManifestUpdated ==
    \E i \in 1..Len(steps) : steps[i].step = "update_library_manifest"

\* C23: main runs copy_fbx_assets, extract_from_blender and
\* update_library_manifest in this order, and once the extraction step has
\* failed (missing blend file or exception) the manifest update still runs.
C23_ManifestAfterFailedExtraction ==
    /\ [](\A i \in 1..Len(steps) : i <= Len(MainOrder) /\ steps[i].step = MainOrder[i])
    /\ (ExtractionFailed ~> ManifestUpdated)

\* extract_from_blender raised and the manifest was updated after it
C23_Witness ==
    /\ main_pc = "done"
    /\ Len(steps) = 3
    /\ steps[2] = [step |-> "extract_from_blender", ended |-> "raised"]
    /\ steps[3].step = "update_library_manifest"
    /\ total >= 0

\* the model files in the category directories
ModelFiles ==
    {f \in library :
        /\ f.dir \in ManifestCategories
        /\ \/ EndsWith(f.file, <<".", "g", "l", "b">>)
           \/ EndsWith(f.file, <<".", "f", "b", "x">>)
           \/ EndsWith(f.file, <<".", "o", "b", "j">>)}

\* C28: after update_library_manifest, library.json has one entry per model
\* file (.glb, .fbx, .obj) of the five category directories, under the
\* file's category, no entry for any other file, and the reported total is
\* the number of these files.
C28_OneEntryPerModelFile ==
    main_pc = "done" =>
        /\ \A f \in ModelFiles :
              \E e \in manifest : e.category = f.dir /\ e.file = f.file
        /\ \A e \in manifest :
              \E f \in ModelFiles : e.category = f.dir /\ e.file = f.file
        /\ total = Cardinality(ModelFiles)

---------------------------------------------------------------------------
(* The extraction scripts run inside Blender: extract_forest_models.py and *)
(* extract_models.py.  An export (bpy.ops.export_scene.gltf) either        *)
(* succeeds or raises.                                                     *)

MaxObjects == 3

\* objects a scene may hold
SceneObjects ==
    { [name |-> <<"P", "i", "n", "e", " ", "T", "r", "e", "e">>, type |-> "MESH", vertices |-> 500],
      [name |-> <<"R", "o", "c", "k", " ", "1">>, type |-> "MESH", vertices |-> 120],
      [name |-> <<"R", "o", "c", "k", "_", "1">>, type |-> "MESH", vertices |-> 10],
      [name |-> <<"H", "e", "l", "p", "e", "r">>, type |-> "MESH", vertices |-> 9],
      [name |-> <<"C", "a", "m", "e", "r", "a">>, type |-> "CAMERA", vertices |-> 0] }

\* scenes of up to MaxObjects objects (object names are unique in a scene)
Scenes ==
    {s \in UNION {[1..n -> SceneObjects] : n \in 1..MaxObjects} :
        \A i, j \in 1..Len(s) : i # j => s[i] # s[j]}

IsMesh(obj) == obj.type = "MESH"

\* mesh_objects = [obj for obj in ... if obj.type == 'MESH']
MeshObjects == SelectSeq(objects, IsMesh)

\* the keys of extracted_models in extract_forest_models.main
ForestCategories == {"trees", "rocks", "vegetation", "ground", "other"}

InitForest ==
    /\ terrain_params = TerrainParams
    /\ rng = 0
    /\ seed = 0
    /\ verts = <<>>
    /\ vi = 1
    /\ dists = <<>>
    /\ noises = <<>>
    /\ tpc = "start"
    /\ px = 0
    /\ py = 0
    /\ dist_from_center = 0
    /\ normalized_dist = 0
    /\ color = <<>>
    /\ draws = 0
    /\ final_color = <<>>
    /\ tex_width = 0
    /\ tex_height = 0
    /\ pixels = <<>>
    /\ base_color = <<>>
    /\ details = <<>>
    /\ dither = <<>>
    /\ written = <<>>
    /\ run = 1
    /\ first_pixels = <<>>
    /\ others = {}
    /\ filename = <<>>
    /\ returned = {}
    /\ main_pc = "copy"
    /\ kit = {}
    /\ blends = {}
    /\ blend_i = 1
    /\ model_dirs = {}
    /\ library = {}
    /\ manifest = {}
    /\ total = -1
    /\ steps = <<>>
    /\ objects \in Scenes
    /\ obj_i = 1
    /\ extracted_models = [c \in ForestCategories |-> <<>>]
    /\ exports = <<>>
    /\ total_printed = -1

\* the entry is appended whether or not the export succeeded
ForestMutAlwaysAppend ==
    /\ total_printed = -1
    /\ obj_i <= Len(MeshObjects)
    /\ LET obj == MeshObjects[obj_i]
           category == ClassifyObject(obj.name)
       IN \E success \in BOOLEAN :
             /\ exports' = Append(exports, [name |-> obj.name, category |-> category,
                                            ok |-> success])
             /\ extracted_models' =
                   [extracted_models EXCEPT
                       ![category] = Append(@, [name |-> obj.name, category |-> category])]
    /\ obj_i' = obj_i + 1
    /\ UNCHANGED <<objects, total_printed>>

\* extract_forest_models.main: one iteration of `for obj in mesh_objects`
ForestProcessObject ==
    /\ total_printed = -1
    /\ obj_i <= Len(MeshObjects)
    /\ LET obj == MeshObjects[obj_i]
           category == ClassifyObject(obj.name)
       IN \E success \in BOOLEAN :
             /\ exports' = Append(exports, [name |-> obj.name, category |-> category,
                                            ok |-> success])
             /\ extracted_models' =
                   IF success
                   THEN [extracted_models EXCEPT
                            ![category] = Append(@, [name |-> obj.name, category |-> category])]
                   ELSE extracted_models
    /\ obj_i' = obj_i + 1
    /\ UNCHANGED <<objects, total_printed>>

RECURSIVE SumLen(_, _)
\* sum(len(models) for models in extracted_models.values())
SumLen(f, keys) ==
    IF keys = {} THEN 0
    ELSE LET k == CHOOSE k \in keys : TRUE
         IN Len(f[k]) + SumLen(f, keys \ {k})

\* extract_forest_models.main: the manifest is written and the summary printed
ForestSummary ==
    /\ total_printed = -1
    /\ obj_i > Len(MeshObjects)
    /\ total_printed' = SumLen(extracted_models, DOMAIN extracted_models)
    /\ UNCHANGED <<objects, obj_i, extracted_models, exports>>

NextForest ==
    \/ (ForestProcessObject /\ UNCHANGED islandVars /\ UNCHANGED categorizeVars /\ UNCHANGED organizeVars)
    \/ (ForestSummary /\ UNCHANGED islandVars /\ UNCHANGED categorizeVars /\ UNCHANGED organizeVars)

SpecForest == InitForest /\ [][NextForest]_vars

\* extract_models.extract_models: clean_name
ModelsCleanName(obj_name) ==
    Lower(SpacesToUnderscores(RStrip(SelectSeq(obj_name, KeptInFilename))))

InitModels ==
    /\ terrain_params = TerrainParams
    /\ rng = 0
    /\ seed = 0
    /\ verts = <<>>
    /\ vi = 1
    /\ dists = <<>>
    /\ noises = <<>>
    /\ tpc = "start"
    /\ px = 0
    /\ py = 0
    /\ dist_from_center = 0
    /\ normalized_dist = 0
    /\ color = <<>>
    /\ draws = 0
    /\ final_color = <<>>
    /\ tex_width = 0
    /\ tex_height = 0
    /\ pixels = <<>>
    /\ base_color = <<>>
    /\ details = <<>>
    /\ dither = <<>>
    /\ written = <<>>
    /\ run = 1
    /\ first_pixels = <<>>
    /\ others = {}
    /\ filename = <<>>
    /\ returned = {}
    /\ main_pc = "copy"
    /\ kit = {}
    /\ blends = {}
    /\ blend_i = 1
    /\ model_dirs = {}
    /\ library = {}
    /\ manifest = {}
    /\ total = -1
    /\ steps = <<>>
    /\ objects \in Scenes
    /\ obj_i = 1
    /\ extracted_models = {}
    /\ exports = <<>>
    /\ total_printed = -1

\* extract_models.extract_models: one iteration of `for obj in mesh_objects`.
\* extracted_models["models"] is kept as the set of its entries; an entry
\* with the same category and clean_name is replaced.
ModelsProcessObject ==
    /\ total_printed = -1
    /\ obj_i <= Len(MeshObjects)
    /\ LET obj == MeshObjects[obj_i]
           category == ModelsCategorizeObject(obj.name)
           clean_name == ModelsCleanName(obj.name)
       IN IF obj.vertices < 10
          THEN UNCHANGED <<extracted_models, exports>>
          ELSE \E success \in BOOLEAN :
                  /\ exports' = Append(exports, [name |-> obj.name, category |-> category,
                                                 ok |-> success])
                  /\ extracted_models' =
                        IF success
                        THEN {e \in extracted_models :
                                 ~(e.category = category /\ e.clean_name = clean_name)}
                             \cup {[category |-> category, clean_name |-> clean_name,
                                    name |-> obj.name]}
                        ELSE extracted_models
    /\ obj_i' = obj_i + 1
    /\ UNCHANGED <<objects, total_printed>>

\* extract_models.main: the manifest is saved and the summary printed
ModelsSummary ==
    /\ total_printed = -1
    /\ obj_i > Len(MeshObjects)
    /\ total_printed' = Cardinality(extracted_models)
    /\ UNCHANGED <<objects, obj_i, extracted_models, exports>>

NextModels ==
    \/ (ModelsProcessObject /\ UNCHANGED islandVars /\ UNCHANGED categorizeVars /\ UNCHANGED organizeVars)
    \/ (ModelsSummary /\ UNCHANGED islandVars /\ UNCHANGED categorizeVars /\ UNCHANGED organizeVars)

SpecModels == InitModels /\ [][NextModels]_vars

\* the exports that succeeded so far
Succeeded == {i \in 1..Len(exports) : exports[i].ok}

\* the entries of extract_forest_models' manifest, as [category, index] pairs
ForestEntries ==
    {p \in ForestCategories \X (1..Len(objects)) : p[2] <= Len(extracted_models[p[1]])}

C29_OneEntryPerExport ==
    total_printed >= 0 =>
        /\ \A i \in 1..Len(exports) :
              Cardinality({e \in extracted_models : e.name = exports[i].name})
              = (IF exports[i].ok THEN 1 ELSE 0)
        /\ \A e \in extracted_models : \E i \in Succeeded : exports[i].name = e.name
        /\ \A k \in 1..Len(MeshObjects) :
              MeshObjects[k].vertices < 10 =>
                 \A e \in extracted_models : e.name # MeshObjects[k].name
        /\ total_printed = Cardinality(Succeeded)

\* C30: every step of the vertex loop of create_island_terrain sets the z of
\* one vertex, the next one in bm.verts, to calculate_terrain_height of that
\* vertex's own x and y, which differs from the z = 0 the plane gave it, and
\* leaves every x, every y and the z of all other vertices unchanged; so
\* each vertex is visited exactly once.
C30_VertexLoopFrame ==
    [][/\ vi' = vi + 1
       /\ vi \in 1..Len(verts)
       /\ Len(verts') = Len(verts)
       /\ \A i \in 1..Len(verts) :
             /\ verts'[i].x = verts[i].x
             /\ verts'[i].y = verts[i].y
             /\ i # vi => verts'[i].z = verts[i].z
       /\ verts[vi].z = 0
       /\ verts'[vi].z = CalculateTerrainHeight(verts[vi].x, verts[vi].y)
       /\ verts'[vi].z # verts[vi].z]_vars

\* the loop is over for a mesh of two different vertices off the axes of
\* symmetry: both have their own height
C30_Witness ==
    /\ vi > Len(verts)
    /\ Len(verts) = 2
    /\ Abs(verts[1].x) # Abs(verts[1].y)
    /\ verts[1].x # 0
    /\ verts[1].y # 0
    /\ verts[1].z # verts[2].z
    /\ \A i \in 1..Len(verts) :
          verts[i].z = CalculateTerrainHeight(verts[i].x, verts[i].y) /\ verts[i].z # 0

===========================================================================
